---- MODULE Spec2Model ----
(***************************************************************************)
(* Payment-record lifecycle of the property manager: the tenants and       *)
(* payment_records tables, the repositories that write them and the        *)
(* facade calls of app.go that reach them.                                 *)
(*                                                                         *)
(* Representation.  A month string "YYYY-MM" is the pair <<y, m>> of its   *)
(* two numeric fields and a date string "YYYY-MM-DD" the triple            *)
(* <<y, m, d>>; a string whose month field is outside 01..12 is one that   *)
(* time.Parse rejects.  A time.Time that sits on the first day of a month  *)
(* is the count of months since year 0.  Amounts are whole numbers.  The   *)
(* text fields of the payment dialog are sequences of characters.          *)
(*                                                                         *)
(* A launch of the application is the step startup; the facade serves      *)
(* calls once startup has set the storage handle and the repositories.     *)
(*                                                                         *)
(* Specifications.  Spec is the whole system; SpecEdit the editing calls   *)
(* with all their inputs; SpecView the read calls on the records of        *)
(* tenants that are already stored; SpecMonths the month functions over    *)
(* the dates of the calendar; SpecPlacement the tenant and apartment       *)
(* dialogs; SpecFresh the launch on a data directory that has no           *)
(* payment_records table.  All but SpecFresh start from a database file    *)
(* in which the four tables exist.                                         *)
(***************************************************************************)
EXTENDS Integers, Sequences, FiniteSets, TLC

\* ------------------------------------------------------------------ bounds
\* tenant creations and editing calls in a run of the whole system
MaxCalls == 2
\* tenant creations and editing calls in a run of the editing calls
MaxEditCalls == 3
\* the highest id the payment_records table hands out
MaxRecordId == 5
\* the latest statement of a transaction that can fail
MaxFaultPos == 3
\* the years after 2023 that the month functions are called in and with
MaxYearSpan == 1
\* record and tenant deletions in a run of the views
MaxViewEdits == 1
\* calls of the tenant and apartment dialogs in a run of them
MaxPlacementCalls == 3
\* tenant creations and editing calls in a run on a new data directory
MaxFreshCalls == 2

\* SQL NULL in tenants.move_out_date / a nil *time.Time
NoDate == <<>>

\* --------------------------------------------------- calendar and strings
\* time.Date(y, m, 1, 0, 0, 0, 0, time.UTC)
FirstOfMonth(y, m) == y * 12 + (m - 1)

\* t.AddDate(0, n, 0) on a first-of-month time
AddMonths(t, n) == t + n

\* t.Format("2006-01")
FormatMonth(t) == <<t \div 12, (t % 12) + 1>>

\* time.Parse("2006-01", s) succeeds
MonthParses(s) == s[1] \in 0..9999 /\ s[2] \in 1..12

\* the time.Time that time.Parse("2006-01", s) returns
ParseMonth(s) == FirstOfMonth(s[1], s[2])

IsLeap(y) == (y % 4 = 0 /\ y % 100 # 0) \/ y % 400 = 0

DaysIn(y, m) ==
    IF m \in {4, 6, 9, 11} THEN 30
    ELSE IF m = 2 THEN (IF IsLeap(y) THEN 29 ELSE 28)
    ELSE 31

\* time.Parse("2006-01-02", s) succeeds
parseDate(s) ==
    /\ s # NoDate
    /\ s[1] \in 0..9999
    /\ s[2] \in 1..12
    /\ s[3] \in 1..DaysIn(s[1], s[2])

\* byte-wise order of two zero-padded strings of the same layout
\* (Go's < on strings, SQLite's > on TEXT, time.Time.After on parsed dates)
StrLess(a, b) ==
    \E i \in 1..Len(a) :
        /\ i <= Len(b)
        /\ a[i] < b[i]
        /\ \A j \in 1..(i - 1) : a[j] = b[j]

\* ------------------------------------------------------------------ state
VARIABLES
    app,               \* the App struct: which of its fields are set (non-nil)
    schema,            \* the tables of the database file
    apartments,        \* apartments table: rows [id, house_id]
    houses,            \* houses table: set of ids
    tenants,           \* tenants table: set of rows
    payment_records,   \* payment_records table: set of rows
    seq_tenants,       \* sqlite_sequence entry of tenants (AUTOINCREMENT)
    seq_records,       \* sqlite_sequence entry of payment_records
    today,             \* the date time.Now() / date('now') reports
    edits,             \* number of user edit calls made so far
    last               \* outcome of the last call: [op, id, err, branch, ret]

vars == <<app, schema, apartments, houses, tenants, payment_records, seq_tenants,
          seq_records, today, edits, last>>

\* the tables the application works on
AllTables == {"houses", "apartments", "tenants", "payment_records"}

\* a statement on payment_records finds no such table
NoSuchTable == "payment_records" \notin schema

\* the error the driver returns for it
NoSuchTableErr == "no such table: payment_records"

\* the error of PaymentRecordRepository.GetByID when it returns no record
NotFoundErr == IF NoSuchTable THEN NoSuchTableErr ELSE "payment record not found"

\* the dates the clock passes through
Calendar == << <<2023, 12, 15>>, <<2024, 1, 15>> >>

Outcome(op, id, err, branch) == [op |-> op, id |-> id, err |-> err, branch |-> branch, ret |-> <<>>]

\* the outcome of a call that reads: the error and the value it returns
Returned(op, id, err, ret) == [op |-> op, id |-> id, err |-> err, branch |-> "", ret |-> ret]

\* ------------------------------------------------ PaymentRecord.Validate
Validate(p) ==
    IF p.tenant_id <= 0 THEN "invalid tenant ID"
    ELSE IF ~MonthParses(p.month) THEN "invalid month format: must be YYYY-MM"
    ELSE IF p.persons <= 0 THEN "number of persons must be greater than 0"
    ELSE IF \/ p.paid_cold_rent < 0 \/ p.paid_ancillary < 0
            \/ p.paid_electricity < 0 \/ p.extra_payments < 0
         THEN "payment amounts cannot be negative"
    ELSE "ok"

\* ------------------------------------------------------- Tenant.Validate
TenantValidate(t) ==
    IF t.first_name = "" THEN "first name cannot be empty"
    ELSE IF t.last_name = "" THEN "last name cannot be empty"
    ELSE IF t.move_out_date # NoDate /\ ~StrLess(t.move_in_date, t.move_out_date)
         THEN "move-out date must be after move-in date"
    ELSE IF t.number_of_persons <= 0 THEN "number of persons must be greater than 0"
    ELSE IF t.target_cold_rent <= 0 THEN "target cold rent must be greater than 0"
    ELSE IF t.target_ancillary_payment <= 0 THEN "target ancillary payment must be greater than 0"
    ELSE IF t.target_electricity_payment <= 0 THEN "target electricity payment must be greater than 0"
    ELSE IF t.deposit < 0 THEN "deposit cannot be negative"
    ELSE IF t.house_id <= 0 THEN "invalid house ID"
    ELSE IF t.apartment_id <= 0 THEN "invalid apartment ID"
    ELSE "ok"

\* models.NewTenant on the form values of the facade call
NewTenant(f) ==
    IF ~parseDate(f.move_in_date) THEN "invalid move-in date format: must be YYYY-MM-DD"
    ELSE IF f.move_out_date # NoDate /\ ~parseDate(f.move_out_date)
         THEN "invalid move-out date format: must be YYYY-MM-DD"
    ELSE IF f.move_out_date # NoDate /\ ~StrLess(f.move_in_date, f.move_out_date)
         THEN "move-out date must be after move-in date"
    ELSE IF f.deposit < 0 THEN "invalid deposit amount"
    ELSE IF f.number_of_persons <= 0 THEN "number of persons must be greater than 0"
    ELSE IF f.target_cold_rent <= 0 THEN "target cold rent must be greater than 0"
    ELSE IF f.target_ancillary_payment <= 0 THEN "target ancillary payment must be greater than 0"
    ELSE IF f.target_electricity_payment <= 0 THEN "target electricity payment must be greater than 0"
    ELSE IF f.house_id <= 0 THEN "invalid house ID"
    ELSE IF f.apartment_id <= 0 THEN "invalid apartment ID"
    ELSE "ok"

\* --------------------------------------------------- storage primitives
\* a transaction's view of payment_records: the rows and the AUTOINCREMENT
\* counter, both of which a rollback restores
Tx(rows, seq) == [rows |-> rows, seq |-> seq]

\* SELECT COUNT(*) FROM payment_records WHERE tenant_id = ? AND month = ?
CountRecords(rows, tenantID, month) ==
    Cardinality({r \in rows : r.tenant_id = tenantID /\ r.month = month})

\* SELECT COUNT(*) FROM tenants WHERE id = ?
TenantExists(tenantID) == \E t \in tenants : t.id = tenantID

\* the UNIQUE(tenant_id, month) constraint of the table
UniqueViolation(rows, tenantID, month) ==
    \E r \in rows : r.tenant_id = tenantID /\ r.month = month

\* INSERT INTO payment_records (...) VALUES (...) with a fresh AUTOINCREMENT id
ExecInsert(tx, v) ==
    Tx(tx.rows \cup {[id |-> tx.seq + 1,
                      tenant_id |-> v.tenant_id,
                      month |-> v.month,
                      target_cold_rent |-> v.target_cold_rent,
                      paid_cold_rent |-> v.paid_cold_rent,
                      paid_ancillary |-> v.paid_ancillary,
                      paid_electricity |-> v.paid_electricity,
                      extra_payments |-> v.extra_payments,
                      persons |-> v.persons,
                      note |-> v.note,
                      is_locked |-> v.is_locked,
                      created_at |-> today,
                      updated_at |-> today]},
       tx.seq + 1)

\* variant: the error path returns without tx.Rollback() and the writes stay
TxEndNoRollback(before, run) == run.tx

\* tx.Commit() after a clean run, tx.Rollback() after an error
TxEnd(before, run) == IF run.err = "ok" THEN run.tx ELSE before

\* the record generation inserts for one month of one tenant
GeneratedRecord(tenantID, month, targetColdRent, numberOfPersons) ==
    [tenant_id |-> tenantID, month |-> month,
     target_cold_rent |-> targetColdRent,
     paid_cold_rent |-> 0, paid_ancillary |-> 0, paid_electricity |-> 0,
     extra_payments |-> 0, persons |-> numberOfPersons,
     note |-> "", is_locked |-> FALSE]

\* ------------------------------------- GeneratePaymentRecordsForTenant
\* variant: a month that has a record gets a fresh one in its place
\* (INSERT OR REPLACE without the existence check)
RECURSIVE GenerateLoopReplace(_, _, _, _, _, _)
GenerateLoopReplace(tx, month, endMonth, t, stmt, fault) ==
    IF month > endMonth THEN [tx |-> tx, err |-> "ok"]
    ELSE IF stmt + 1 = fault THEN [tx |-> tx, err |-> "database error"]
    ELSE LET kept == {r \in tx.rows :
                         ~(r.tenant_id = t.id /\ r.month = FormatMonth(month))}
         IN  GenerateLoopReplace(
                 ExecInsert(Tx(kept, tx.seq),
                            GeneratedRecord(t.id, FormatMonth(month),
                                            t.target_cold_rent, t.number_of_persons)),
                 AddMonths(month, 1), endMonth, t, stmt + 1, fault)

\* the loop over the months of the span, inside one transaction; stmt counts
\* the statements the transaction has issued and the statement numbered
\* fault (0: none) returns a database error
RECURSIVE GenerateLoop(_, _, _, _, _, _)
GenerateLoop(tx, month, endMonth, t, stmt, fault) ==
    IF month > endMonth THEN [tx |-> tx, err |-> "ok"]
    ELSE IF NoSuchTable THEN [tx |-> tx, err |-> NoSuchTableErr]
    ELSE IF stmt + 1 = fault THEN [tx |-> tx, err |-> "database error"]
    ELSE IF CountRecords(tx.rows, t.id, FormatMonth(month)) > 0
         THEN GenerateLoop(tx, AddMonths(month, 1), endMonth, t, stmt + 1, fault)
    ELSE IF stmt + 2 = fault THEN [tx |-> tx, err |-> "database error"]
    ELSE IF UniqueViolation(tx.rows, t.id, FormatMonth(month))
         THEN [tx |-> tx, err |-> "UNIQUE constraint failed"]
    ELSE GenerateLoop(
            ExecInsert(tx, GeneratedRecord(t.id, FormatMonth(month),
                                           t.target_cold_rent, t.number_of_persons)),
            AddMonths(month, 1), endMonth, t, stmt + 2, fault)

\* variant: the span always ends at the current month, the move-out date is
\* not looked at
GenerateRunToToday(db, tenantRows, tenantID, fault) ==
    IF ~\E x \in tenantRows : x.id = tenantID
    THEN [tx |-> db, err |-> "tenant not found", wrote |-> FALSE]
    ELSE
      LET t == CHOOSE x \in tenantRows : x.id = tenantID
      IN  IF ~parseDate(t.move_in_date)
          THEN [tx |-> db, err |-> "invalid move-in date format", wrote |-> FALSE]
          ELSE
            LET startMonth == FirstOfMonth(t.move_in_date[1], t.move_in_date[2])
                endMonth == FirstOfMonth(today[1], today[2])
                run == GenerateLoop(db, startMonth, endMonth, t, 0, fault)
            IN  [tx |-> TxEnd(db, run), err |-> run.err, wrote |-> run.tx # db]

\* the call from the tenant lookup on, on the tables db = Tx(rows, seq): the
\* error, the tables it leaves, and whether the transaction had written
GenerateRun(db, tenantRows, tenantID, fault) ==
    IF ~\E x \in tenantRows : x.id = tenantID
    THEN [tx |-> db, err |-> "tenant not found", wrote |-> FALSE]
    ELSE
      LET t == CHOOSE x \in tenantRows : x.id = tenantID
      IN  IF ~parseDate(t.move_in_date)
          THEN [tx |-> db, err |-> "invalid move-in date format", wrote |-> FALSE]
          ELSE IF t.move_out_date # NoDate /\ ~parseDate(t.move_out_date)
          THEN [tx |-> db, err |-> "invalid move-out date format", wrote |-> FALSE]
          ELSE
            LET startMonth == FirstOfMonth(t.move_in_date[1], t.move_in_date[2])
                endMonth == IF t.move_out_date # NoDate
                            THEN FirstOfMonth(t.move_out_date[1], t.move_out_date[2])
                            ELSE FirstOfMonth(today[1], today[2])
                run == GenerateLoop(db, startMonth, endMonth, t, 0, fault)
            IN  [tx |-> TxEnd(db, run), err |-> run.err, wrote |-> run.tx # db]

GeneratePaymentRecordsForTenant(tenantID, fault) ==
    \E res \in {GenerateRun(Tx(payment_records, seq_records), tenants, tenantID, fault)} :
        /\ res.tx.seq <= MaxRecordId
        /\ payment_records' = res.tx.rows
        /\ seq_records' = res.tx.seq
        /\ last' = Outcome("Generate", tenantID, res.err,
                           IF res.wrote THEN "wrote" ELSE "clean")
        /\ UNCHANGED <<app, schema, apartments, houses, tenants, seq_tenants, today, edits>>

\* ----------------------------------------------------- TenantRepository
\* SELECT house_id FROM apartments WHERE id = ? and the house comparison
ApartmentCheck(t) ==
    IF ~\E a \in apartments : a.id = t.apartment_id THEN "apartment not found"
    ELSE IF (CHOOSE a \in apartments : a.id = t.apartment_id).house_id # t.house_id
         THEN "apartment does not belong to the specified house"
    ELSE "ok"

TenantRow(id, f) ==
    [id |-> id,
     first_name |-> f.first_name, last_name |-> f.last_name,
     move_in_date |-> f.move_in_date, move_out_date |-> f.move_out_date,
     deposit |-> f.deposit, number_of_persons |-> f.number_of_persons,
     target_cold_rent |-> f.target_cold_rent,
     target_ancillary_payment |-> f.target_ancillary_payment,
     target_electricity_payment |-> f.target_electricity_payment,
     house_id |-> f.house_id, apartment_id |-> f.apartment_id]

\* TenantRepository.Create up to the INSERT: the error it returns, or "ok"
TenantCreateErr(f) ==
    IF TenantValidate(f) # "ok" THEN TenantValidate(f) ELSE ApartmentCheck(f)

\* TenantRepository.GetByID: the joins drop a tenant whose house or apartment
\* row is gone
TenantGetByID(id) ==
    {t \in tenants : /\ t.id = id
                     /\ t.house_id \in houses
                     /\ \E a \in apartments : a.id = t.apartment_id}

\* form values the tenant dialogs send
TenantForm(moveIn, moveOut, persons, rent, house, apartment) ==
    [first_name |-> "John", last_name |-> "Doe",
     move_in_date |-> moveIn, move_out_date |-> moveOut,
     deposit |-> 1500, number_of_persons |-> persons,
     target_cold_rent |-> rent, target_ancillary_payment |-> 200,
     target_electricity_payment |-> 100,
     house_id |-> house, apartment_id |-> apartment]

\* forms of the new-tenant dialog: a current tenant, one who moves out, one
\* who moves in later, and an apartment of another house
NewTenantForms ==
    { TenantForm(<<2023, 11, 20>>, NoDate, 1, 500, 1, 1),
      TenantForm(<<2023, 12, 1>>, <<2024, 1, 10>>, 2, 600, 2, 2),
      TenantForm(<<2024, 2, 1>>, NoDate, 1, 500, 1, 1),
      TenantForm(<<2023, 11, 20>>, NoDate, 1, 500, 2, 1) }

\* forms of the edit-tenant dialog: new rent and persons, a move-out date,
\* and a move-out date before the move-in date
ChangedTenantForms ==
    { TenantForm(<<2023, 11, 20>>, NoDate, 2, 600, 1, 1),
      TenantForm(<<2023, 11, 20>>, <<2023, 12, 31>>, 1, 500, 1, 1),
      TenantForm(<<2023, 12, 1>>, <<2023, 11, 30>>, 1, 500, 1, 1) }

\* App.CreateTenant: NewTenant, TenantRepository.Create, then generation whose
\* error is only printed
CreateTenant(f, fault) ==
    /\ LET err == IF NewTenant(f) # "ok" THEN NewTenant(f) ELSE TenantCreateErr(f)
           id == seq_tenants + 1
       IN  IF err # "ok"
           THEN /\ last' = Outcome("CreateTenant", 0, err, "rejected")
                /\ UNCHANGED <<tenants, seq_tenants, payment_records, seq_records>>
           ELSE \E res \in {GenerateRun(Tx(payment_records, seq_records),
                                          tenants \cup {TenantRow(id, f)}, id, fault)} :
                    /\ res.tx.seq <= MaxRecordId
                    /\ tenants' = tenants \cup {TenantRow(id, f)}
                    /\ seq_tenants' = id
                    /\ payment_records' = res.tx.rows
                    /\ seq_records' = res.tx.seq
                    /\ last' = Outcome("CreateTenant", id, "ok",
                                       IF res.err = "ok" THEN "generated"
                                       ELSE "generation failed")
    /\ UNCHANGED <<app, schema, apartments, houses, today, edits>>

\* ---------------------------------------------- PaymentRecordRepository
\* PaymentRecordRepository.GetByID: the rows with that id (none or one)
GetByID(rows, id) == {r \in rows : r.id = id}

\* variant: the lock branch restores the four amounts and forgets persons
LockRuleWithoutPersons(existing, record) ==
    IF existing.is_locked /\ record.is_locked
    THEN [record EXCEPT !.paid_cold_rent = existing.paid_cold_rent,
                        !.paid_ancillary = existing.paid_ancillary,
                        !.paid_electricity = existing.paid_electricity,
                        !.extra_payments = existing.extra_payments]
    ELSE record

\* variant: a stored lock freezes the amounts and persons whatever lock flag
\* the caller sends
LockRuleSticky(existing, record) ==
    IF existing.is_locked
    THEN [record EXCEPT !.paid_cold_rent = existing.paid_cold_rent,
                        !.paid_ancillary = existing.paid_ancillary,
                        !.paid_electricity = existing.paid_electricity,
                        !.extra_payments = existing.extra_payments,
                        !.persons = existing.persons]
    ELSE record

\* the lock branch of Update: what the record holds when the UPDATE is built
LockRule(existing, record) ==
    IF existing.is_locked /\ record.is_locked
    THEN [record EXCEPT !.paid_cold_rent = existing.paid_cold_rent,
                        !.paid_ancillary = existing.paid_ancillary,
                        !.paid_electricity = existing.paid_electricity,
                        !.extra_payments = existing.extra_payments,
                        !.persons = existing.persons]
    ELSE record

\* variant: the UPDATE also sets target_cold_rent from the caller's record
ExecUpdateWithTarget(rows, id, v) ==
    {IF r.id = id
     THEN [r EXCEPT !.target_cold_rent = v.target_cold_rent,
                    !.paid_cold_rent = v.paid_cold_rent,
                    !.paid_ancillary = v.paid_ancillary,
                    !.paid_electricity = v.paid_electricity,
                    !.extra_payments = v.extra_payments,
                    !.persons = v.persons,
                    !.note = v.note,
                    !.is_locked = v.is_locked,
                    !.updated_at = today]
     ELSE r : r \in rows}

\* UPDATE payment_records SET paid_cold_rent = ?, ..., updated_at = ? WHERE id = ?
ExecUpdate(rows, id, v) ==
    {IF r.id = id
     THEN [r EXCEPT !.paid_cold_rent = v.paid_cold_rent,
                    !.paid_ancillary = v.paid_ancillary,
                    !.paid_electricity = v.paid_electricity,
                    !.extra_payments = v.extra_payments,
                    !.persons = v.persons,
                    !.note = v.note,
                    !.is_locked = v.is_locked,
                    !.updated_at = today]
     ELSE r : r \in rows}

\* variant: Update goes to the lookup and the UPDATE without calling Validate
UpdateRunNoValidate(rows, record) ==
    IF GetByID(rows, record.id) = {}
    THEN [rows |-> rows, err |-> NotFoundErr]
    ELSE LET existingRecord == CHOOSE r \in rows : r.id = record.id
         IN  [rows |-> ExecUpdate(rows, record.id, LockRule(existingRecord, record)),
              err |-> "ok"]

\* variant: Update looks the record up and applies the lock rule first, and
\* validates what is left of the caller's values
UpdateRunLockFirst(rows, record) ==
    IF GetByID(rows, record.id) = {}
    THEN [rows |-> rows,
          err |-> IF Validate(record) # "ok" THEN Validate(record)
                  ELSE NotFoundErr]
    ELSE LET existingRecord == CHOOSE r \in rows : r.id = record.id
             kept == LockRule(existingRecord, record)
         IN  IF Validate(kept) # "ok" THEN [rows |-> rows, err |-> Validate(kept)]
             ELSE [rows |-> ExecUpdate(rows, record.id, kept), err |-> "ok"]

\* PaymentRecordRepository.Update on the rows: the error and the rows it leaves
UpdateRun(rows, record) ==
    IF Validate(record) # "ok" THEN [rows |-> rows, err |-> Validate(record)]
    ELSE IF GetByID(rows, record.id) = {}
         THEN [rows |-> rows, err |-> NotFoundErr]
    ELSE LET existingRecord == CHOOSE r \in rows : r.id = record.id
         IN  [rows |-> ExecUpdate(rows, record.id, LockRule(existingRecord, record)),
              err |-> "ok"]

\* which lock branch an update of the stored row with that record takes
UpdateBranch(rows, record) ==
    IF GetByID(rows, record.id) = {} THEN "missing"
    ELSE LET e == CHOOSE r \in rows : r.id = record.id
         IN  IF e.is_locked /\ ~record.is_locked THEN "unlock"
             ELSE IF e.is_locked /\ record.is_locked THEN "still locked"
             ELSE "open"

Update(record) ==
    /\ LET res == UpdateRun(payment_records, record)
       IN  /\ payment_records' = res.rows
           /\ last' = Outcome("Update", record.id, res.err,
                              UpdateBranch(payment_records, record))
    /\ edits' = edits + 1
    /\ UNCHANGED <<app, schema, apartments, houses, tenants, seq_tenants, seq_records, today>>

\* variant: Create does not count the records of the tenant and month, and
\* the table has no UNIQUE(tenant_id, month)
CreateErrNoDuplicateCheck(rows, record) ==
    IF Validate(record) # "ok" THEN Validate(record)
    ELSE IF ~TenantExists(record.tenant_id) THEN "tenant not found"
    ELSE "ok"

\* PaymentRecordRepository.Create
CreateErr(rows, record) ==
    IF Validate(record) # "ok" THEN Validate(record)
    ELSE IF ~TenantExists(record.tenant_id) THEN "tenant not found"
    ELSE IF NoSuchTable THEN NoSuchTableErr
    ELSE IF CountRecords(rows, record.tenant_id, record.month) > 0
         THEN "payment record already exists for this tenant and month"
    ELSE IF UniqueViolation(rows, record.tenant_id, record.month)
         THEN "UNIQUE constraint failed"
    ELSE "ok"

Create(record) ==
    /\ seq_records < MaxRecordId
    /\ LET err == CreateErr(payment_records, record)
           tx == IF err = "ok"
                 THEN ExecInsert(Tx(payment_records, seq_records), record)
                 ELSE Tx(payment_records, seq_records)
       IN  /\ payment_records' = tx.rows
           /\ seq_records' = tx.seq
           /\ last' = Outcome("Create", IF err = "ok" THEN tx.seq ELSE 0, err, "")
    /\ edits' = edits + 1
    /\ UNCHANGED <<app, schema, apartments, houses, tenants, seq_tenants, today>>

\* variant: Delete runs its DELETE without the lookup, and an id that is not
\* stored deletes nothing and returns nil
DeleteSilent(id) ==
    /\ payment_records' = {r \in payment_records : r.id # id}
    /\ last' = Outcome("Delete", id, "ok", "")
    /\ edits' = edits + 1
    /\ UNCHANGED <<app, schema, apartments, houses, tenants, seq_tenants, seq_records, today>>

\* PaymentRecordRepository.Delete
Delete(id) ==
    /\ IF GetByID(payment_records, id) = {}
       THEN /\ last' = Outcome("Delete", id, NotFoundErr, "")
            /\ UNCHANGED payment_records
       ELSE /\ payment_records' = {r \in payment_records : r.id # id}
            /\ last' = Outcome("Delete", id, "ok", "")
    /\ edits' = edits + 1
    /\ UNCHANGED <<app, schema, apartments, houses, tenants, seq_tenants, seq_records, today>>

\* App.TogglePaymentRecordLock
TogglePaymentRecordLock(recordID) ==
    /\ IF GetByID(payment_records, recordID) = {}
       THEN /\ last' = Outcome("Toggle", recordID, NotFoundErr, "missing")
            /\ UNCHANGED payment_records
       ELSE LET fetched == CHOOSE r \in payment_records : r.id = recordID
                record == [fetched EXCEPT !.is_locked = ~fetched.is_locked]
                res == UpdateRun(payment_records, record)
            IN  /\ payment_records' = res.rows
                /\ last' = Outcome("Toggle", recordID, res.err,
                                   UpdateBranch(payment_records, record))
    /\ edits' = edits + 1
    /\ UNCHANGED <<app, schema, apartments, houses, tenants, seq_tenants, seq_records, today>>

\* App.UpdatePaymentRecordNote
UpdatePaymentRecordNote(recordID, note) ==
    /\ IF GetByID(payment_records, recordID) = {}
       THEN /\ last' = Outcome("UpdateNote", recordID, NotFoundErr, "missing")
            /\ UNCHANGED payment_records
       ELSE LET fetched == CHOOSE r \in payment_records : r.id = recordID
                record == [fetched EXCEPT !.note = note]
                res == UpdateRun(payment_records, record)
            IN  /\ payment_records' = res.rows
                /\ last' = Outcome("UpdateNote", recordID, res.err,
                                   UpdateBranch(payment_records, record))
    /\ edits' = edits + 1
    /\ UNCHANGED <<app, schema, apartments, houses, tenants, seq_tenants, seq_records, today>>

\* ------------------------------------------------ App.UpdatePaymentRecord
\* The strings of the payment dialog are sequences of characters.  Amounts
\* are whole numbers, so a decimal literal here has a fraction of zeros.
Digits == {"0", "1", "2", "3", "4", "5", "6", "7", "8", "9"}

DigitValue(c) ==
    CASE c = "0" -> 0 [] c = "1" -> 1 [] c = "2" -> 2 [] c = "3" -> 3
      [] c = "4" -> 4 [] c = "5" -> 5 [] c = "6" -> 6 [] c = "7" -> 7
      [] c = "8" -> 8 [] c = "9" -> 9

IsDigits(s) == \A i \in 1..Len(s) : s[i] \in Digits

\* the number a run of decimal digits writes
RECURSIVE DigitsValue(_)
DigitsValue(s) ==
    IF s = <<>> THEN 0
    ELSE DigitsValue(SubSeq(s, 1, Len(s) - 1)) * 10 + DigitValue(s[Len(s)])

\* strings.TrimSpace
RECURSIVE TrimSpace(_)
TrimSpace(s) ==
    IF s = <<>> THEN s
    ELSE IF Head(s) = " " THEN TrimSpace(Tail(s))
    ELSE IF s[Len(s)] = " " THEN TrimSpace(SubSeq(s, 1, Len(s) - 1))
    ELSE s

\* strings.Replace(s, ",", ".", -1)
ReplaceCommas(s) == [i \in 1..Len(s) |-> IF s[i] = "," THEN "." ELSE s[i]]

\* the literal without its sign
Unsigned(s) == IF s # <<>> /\ s[1] \in {"+", "-"} THEN Tail(s) ELSE s

\* strconv.Atoi: an optional sign and decimal digits
Atoi(s) ==
    LET body == Unsigned(s)
    IN  IF body = <<>> \/ ~IsDigits(body) THEN [val |-> 0, err |-> "invalid syntax"]
        ELSE [val |-> IF s[1] = "-" THEN 0 - DigitsValue(body) ELSE DigitsValue(body),
              err |-> "ok"]

\* strconv.ParseFloat(s, 64) on decimal literals: an optional sign, digits,
\* and at most one point with digits on at least one side of it
ParseFloat(s) ==
    LET body == Unsigned(s)
        points == {i \in 1..Len(body) : body[i] = "."}
        whole == IF points = {} THEN body
                 ELSE SubSeq(body, 1, (CHOOSE i \in points : TRUE) - 1)
        fraction == IF points = {} THEN <<>>
                    ELSE SubSeq(body, (CHOOSE i \in points : TRUE) + 1, Len(body))
    IN  IF \/ Cardinality(points) > 1
           \/ whole \o fraction = <<>>
           \/ ~IsDigits(whole) \/ ~IsDigits(fraction)
        THEN [val |-> 0, err |-> "invalid syntax"]
        ELSE [val |-> IF s[1] = "-" THEN 0 - DigitsValue(whole) ELSE DigitsValue(whole),
              err |-> "ok"]

\* utils.ParseAmount
ParseAmount(amountStr) ==
    IF amountStr = <<>> THEN [val |-> 0, err |-> "ok"]
    ELSE LET res == ParseFloat(ReplaceCommas(TrimSpace(amountStr)))
         IN  IF res.err # "ok" THEN [val |-> 0, err |-> res.err]
             ELSE IF res.val < 0 THEN [val |-> 0, err |-> "amount cannot be negative"]
             ELSE res

\* the error App.UpdatePaymentRecord returns before it reaches the
\* repository's Update, or "ok"
UpdatePaymentRecordErr(paidColdRent, paidAncillary, paidElectricity, extraPayments, persons) ==
    IF ParseAmount(paidColdRent).err # "ok" THEN "invalid paid cold rent amount"
    ELSE IF ParseAmount(paidAncillary).err # "ok" THEN "invalid paid ancillary amount"
    ELSE IF ParseAmount(paidElectricity).err # "ok" THEN "invalid paid electricity amount"
    ELSE IF ParseAmount(extraPayments).err # "ok" THEN "invalid extra payments amount"
    ELSE IF Atoi(TrimSpace(persons)).err # "ok" THEN "invalid number of persons"
    ELSE IF Atoi(TrimSpace(persons)).val <= 0
         THEN "number of persons must be greater than 0"
    ELSE "ok"

\* App.UpdatePaymentRecord
UpdatePaymentRecord(id, paidColdRent, paidAncillary, paidElectricity, extraPayments, persons, note, isLocked) ==
    /\ IF GetByID(payment_records, id) = {}
       THEN /\ last' = Outcome("UpdatePaymentRecord", id, NotFoundErr,
                               "missing")
            /\ UNCHANGED payment_records
       ELSE LET err == UpdatePaymentRecordErr(paidColdRent, paidAncillary,
                                              paidElectricity, extraPayments, persons)
            IN  IF err # "ok"
                THEN /\ last' = Outcome("UpdatePaymentRecord", id, err, "rejected")
                     /\ UNCHANGED payment_records
                ELSE LET fetched == CHOOSE r \in payment_records : r.id = id
                         existingRecord ==
                             [fetched EXCEPT
                                 !.paid_cold_rent = ParseAmount(paidColdRent).val,
                                 !.paid_ancillary = ParseAmount(paidAncillary).val,
                                 !.paid_electricity = ParseAmount(paidElectricity).val,
                                 !.extra_payments = ParseAmount(extraPayments).val,
                                 !.persons = Atoi(TrimSpace(persons)).val,
                                 !.note = note,
                                 !.is_locked = isLocked]
                         res == UpdateRun(payment_records, existingRecord)
                     IN  /\ payment_records' = res.rows
                         /\ last' = Outcome("UpdatePaymentRecord", id, res.err,
                                            UpdateBranch(payment_records, existingRecord))
    /\ edits' = edits + 1
    /\ UNCHANGED <<app, schema, apartments, houses, tenants, seq_tenants, seq_records, today>>

\* ------------------------------------------------------------ the views
\* ORDER BY pr.month DESC on a set of rows
RECURSIVE OrderByMonthDesc(_)
OrderByMonthDesc(rows) ==
    IF rows = {} THEN <<>>
    ELSE LET top == CHOOSE r \in rows : \A x \in rows : ~StrLess(r.month, x.month)
         IN  <<top>> \o OrderByMonthDesc(rows \ {top})

\* the loop that swaps records[i] and records[j] from both ends
Reverse(s) == [i \in 1..Len(s) |-> s[Len(s) + 1 - i]]

\* variant: the query orders by month ascending, so that LIMIT keeps the
\* oldest records
GetRecentByTenantIDOldest(rows, tenantID, count) ==
    LET found == Reverse(OrderByMonthDesc({r \in rows : r.tenant_id = tenantID}))
        n == IF count < Len(found) THEN count ELSE Len(found)
    IN  SubSeq(found, 1, n)

\* PaymentRecordRepository.GetRecentByTenantID once the query has run: the
\* rows of WHERE, ORDER BY and LIMIT, reversed
GetRecentByTenantID(rows, tenantID, count) ==
    LET found == OrderByMonthDesc({r \in rows : r.tenant_id = tenantID})
        n == IF count < Len(found) THEN count ELSE Len(found)
    IN  Reverse(SubSeq(found, 1, n))

\* the call; the query of a call with fault returns a database error
CallGetRecentByTenantID(tenantID, count, fault) ==
    /\ last' = IF NoSuchTable
               THEN Returned("GetRecentByTenantID", <<tenantID, count>>, NoSuchTableErr, <<>>)
               ELSE IF fault
               THEN Returned("GetRecentByTenantID", <<tenantID, count>>, "database error", <<>>)
               ELSE Returned("GetRecentByTenantID", <<tenantID, count>>, "ok",
                             GetRecentByTenantID(payment_records, tenantID, count))
    /\ UNCHANGED <<app, schema, apartments, houses, tenants, payment_records, seq_tenants,
                   seq_records, today, edits>>

\* variant: the tenants query has no condition on the move-out date
GetCurrentTenantsPaymentsByHouseIDAnyTenant(houseID, unreadable) ==
    LET tenantIDs == {t.id : t \in {x \in tenants : x.house_id = houseID}}
    IN  [id \in (IF NoSuchTable THEN {} ELSE tenantIDs \ {unreadable}) |->
             GetRecentByTenantID(payment_records, id, 12)]

\* PaymentRecordRepository.GetCurrentTenantsPaymentsByHouseID: the map it
\* returns; unreadable is the tenant whose GetRecentByTenantID returns an
\* error (0: none), as it does for every tenant when the table is missing
GetCurrentTenantsPaymentsByHouseID(houseID, unreadable) ==
    LET tenantIDs == {t.id : t \in {x \in tenants :
                                        /\ x.house_id = houseID
                                        /\ (x.move_out_date = NoDate
                                            \/ StrLess(today, x.move_out_date))}}
    IN  [id \in (IF NoSuchTable THEN {} ELSE tenantIDs \ {unreadable}) |->
             GetRecentByTenantID(payment_records, id, 12)]

\* the call
CallGetCurrentTenantsPaymentsByHouseID(houseID, unreadable) ==
    /\ last' = Returned("GetCurrentTenantsPaymentsByHouseID", <<houseID, unreadable>>, "ok",
                        GetCurrentTenantsPaymentsByHouseID(houseID, unreadable))
    /\ UNCHANGED <<app, schema, apartments, houses, tenants, payment_records, seq_tenants,
                   seq_records, today, edits>>

\* ------------------------------------------- BatchCreateOrUpdateRecords
\* variant: every record is inserted without the lookup, into a table that
\* has no UNIQUE(tenant_id, month)
RECURSIVE BatchLoopBlind(_, _, _, _)
BatchLoopBlind(tx, records, i, fault) ==
    IF i > Len(records) THEN [tx |-> tx, err |-> "ok"]
    ELSE IF ~TenantExists(records[i].tenant_id)
         THEN [tx |-> tx, err |-> "tenant not found"]
    ELSE IF i = fault THEN [tx |-> tx, err |-> "database error"]
    ELSE BatchLoopBlind(ExecInsert(tx, records[i]), records, i + 1, fault)

\* the loop over the batch inside one transaction; the write of the record
\* numbered fault (0: none) returns a database error
RECURSIVE BatchLoop(_, _, _, _)
BatchLoop(tx, records, i, fault) ==
    IF i > Len(records) THEN [tx |-> tx, err |-> "ok"]
    ELSE IF NoSuchTable THEN [tx |-> tx, err |-> NoSuchTableErr]
    ELSE
      LET record == records[i]
          found == {r \in tx.rows : r.tenant_id = record.tenant_id /\ r.month = record.month}
      IN  IF found = {}
          THEN IF ~TenantExists(record.tenant_id)
               THEN [tx |-> tx, err |-> "tenant not found"]
               ELSE IF i = fault THEN [tx |-> tx, err |-> "database error"]
               ELSE IF UniqueViolation(tx.rows, record.tenant_id, record.month)
                    THEN [tx |-> tx, err |-> "UNIQUE constraint failed"]
               ELSE BatchLoop(ExecInsert(tx, record), records, i + 1, fault)
          ELSE IF i = fault THEN [tx |-> tx, err |-> "database error"]
               ELSE BatchLoop(
                       Tx(ExecUpdate(tx.rows, (CHOOSE r \in found : TRUE).id, record), tx.seq),
                       records, i + 1, fault)

\* variant: the batch returns its error without tx.Rollback()
BatchRunNoRollback(db, records, fault) ==
    LET run == BatchLoop(db, records, 1, fault)
    IN  [tx |-> run.tx, err |-> run.err, wrote |-> run.tx # db]

\* the call: the loop, then commit or rollback
BatchRun(db, records, fault) ==
    LET run == BatchLoop(db, records, 1, fault)
    IN  [tx |-> TxEnd(db, run), err |-> run.err, wrote |-> run.tx # db]

BatchCreateOrUpdateRecords(records, fault) ==
    /\ \E res \in {BatchRun(Tx(payment_records, seq_records), records, fault)} :
           /\ res.tx.seq <= MaxRecordId
           /\ payment_records' = res.tx.rows
           /\ seq_records' = res.tx.seq
           /\ last' = Outcome("Batch", Len(records), res.err,
                              IF res.wrote THEN "wrote" ELSE "clean")
    /\ edits' = edits + 1
    /\ UNCHANGED <<app, schema, apartments, houses, tenants, seq_tenants, today>>

\* --------------------------------------------------------- GetMonthsRange
\* variant: the loop stops before the end month (current.Before(end))
RECURSIVE MonthsUpToExclusive(_, _)
MonthsUpToExclusive(current, end) ==
    IF current >= end THEN <<>>
    ELSE <<FormatMonth(current)>> \o MonthsUpToExclusive(AddMonths(current, 1), end)

\* the loop from start while the month is not after end
RECURSIVE MonthsUpTo(_, _)
MonthsUpTo(current, end) ==
    IF current > end THEN <<>>
    ELSE <<FormatMonth(current)>> \o MonthsUpTo(AddMonths(current, 1), end)

GetMonthsRange(startMonth, endMonth) ==
    IF ~MonthParses(startMonth)
    THEN [months |-> <<>>, err |-> "invalid start month format"]
    ELSE IF ~MonthParses(endMonth)
    THEN [months |-> <<>>, err |-> "invalid end month format"]
    ELSE IF ParseMonth(endMonth) < ParseMonth(startMonth)
    THEN [months |-> <<>>, err |-> "end month cannot be before start month"]
    ELSE [months |-> MonthsUpTo(ParseMonth(startMonth), ParseMonth(endMonth)),
          err |-> "ok"]

\* the call of GetMonthsRange with those two strings
CallGetMonthsRange(startMonth, endMonth) ==
    /\ \E res \in {GetMonthsRange(startMonth, endMonth)} :
           last' = Returned("GetMonthsRange", <<startMonth, endMonth>>, res.err, res.months)
    /\ UNCHANGED <<app, schema, apartments, houses, tenants, payment_records, seq_tenants,
                   seq_records, today, edits>>

\* ----------------------------------------------- GetLast12MonthsFromToday
\* variant: the months are returned as the loop appended them, newest first
GetLast12MonthsFromTodayNoReverse ==
    LET currentMonth == FirstOfMonth(today[1], today[2])
    IN  [i \in 1..12 |-> FormatMonth(AddMonths(currentMonth, 0 - (i - 1)))]

GetLast12MonthsFromToday ==
    LET currentMonth == FirstOfMonth(today[1], today[2])
        months == [i \in 1..12 |-> FormatMonth(AddMonths(currentMonth, 0 - (i - 1)))]
    IN  Reverse(months)

\* the call of GetLast12MonthsFromToday
CallGetLast12MonthsFromToday ==
    /\ last' = Returned("GetLast12MonthsFromToday", 0, "ok", GetLast12MonthsFromToday)
    /\ UNCHANGED <<app, schema, apartments, houses, tenants, payment_records, seq_tenants,
                   seq_records, today, edits>>

\* ------------------------------- EnsurePaymentRecordsForActiveTenants
\* WHERE t.move_out_date IS NULL OR t.move_out_date > date('now')
IsActive(t) == t.move_out_date = NoDate \/ StrLess(today, t.move_out_date)

\* the ids of a result set in rowid order
RECURSIVE InIdOrder(_)
InIdOrder(ids) ==
    IF ids = {} THEN <<>>
    ELSE LET m == CHOOSE x \in ids : \A y \in ids : x <= y
         IN  <<m>> \o InIdOrder(ids \ {m})

\* variant: a month the tenant has a record for gets a fresh record in its
\* place
RECURSIVE EnsureInsertsReplace(_, _, _, _, _, _, _)
EnsureInsertsReplace(tx, months, i, t, existingMonths, ins, fault) ==
    IF i > Len(months) THEN [tx |-> tx, err |-> "ok", ins |-> ins]
    ELSE IF ins + 1 = fault THEN [tx |-> tx, err |-> "database error", ins |-> ins]
    ELSE LET kept == {r \in tx.rows : ~(r.tenant_id = t.id /\ r.month = months[i])}
         IN  EnsureInsertsReplace(
                 ExecInsert(Tx(kept, tx.seq),
                            GeneratedRecord(t.id, months[i],
                                            t.target_cold_rent, t.number_of_persons)),
                 months, i + 1, t, existingMonths, ins + 1, fault)

\* the inserts for one tenant inside that tenant's transaction; ins counts
\* the INSERTs of the whole pass and the one numbered fault (0: none) fails
RECURSIVE EnsureInserts(_, _, _, _, _, _, _)
EnsureInserts(tx, months, i, t, existingMonths, ins, fault) ==
    IF i > Len(months) THEN [tx |-> tx, err |-> "ok", ins |-> ins]
    ELSE IF months[i] \in existingMonths
         THEN EnsureInserts(tx, months, i + 1, t, existingMonths, ins, fault)
    ELSE IF ins + 1 = fault THEN [tx |-> tx, err |-> "database error", ins |-> ins]
    ELSE IF UniqueViolation(tx.rows, t.id, months[i])
         THEN [tx |-> tx, err |-> "UNIQUE constraint failed", ins |-> ins]
    ELSE EnsureInserts(
            ExecInsert(tx, GeneratedRecord(t.id, months[i],
                                           t.target_cold_rent, t.number_of_persons)),
            months, i + 1, t, existingMonths, ins + 1, fault)

\* variant: an INSERT that fails ends the pass without tx.Rollback(), and the
\* inserts the tenant's transaction had made stay
RECURSIVE EnsureLoopNoRollback(_, _, _, _, _, _, _)
EnsureLoopNoRollback(db, ids, k, ins, fault, locked, unreadable) ==
    IF k > Len(ids) THEN [tx |-> db, err |-> "ok", wrote |-> FALSE]
    ELSE
      LET t == CHOOSE x \in tenants : x.id = ids[k]
          currentMonthStr == FormatMonth(FirstOfMonth(today[1], today[2]))
      IN  IF ~parseDate(t.move_in_date)
          THEN EnsureLoopNoRollback(db, ids, k + 1, ins, fault, locked, unreadable)
          ELSE IF t.id = unreadable \/ NoSuchTable
          THEN EnsureLoopNoRollback(db, ids, k + 1, ins, fault, locked, unreadable)
          ELSE
            LET moveInMonthStr ==
                    FormatMonth(FirstOfMonth(t.move_in_date[1], t.move_in_date[2]))
                existingMonths == {r.month : r \in {x \in db.rows : x.tenant_id = t.id}}
                range == GetMonthsRange(moveInMonthStr, currentMonthStr)
            IN  IF StrLess(currentMonthStr, moveInMonthStr)
                THEN EnsureLoopNoRollback(db, ids, k + 1, ins, fault, locked, unreadable)
                ELSE IF range.err # "ok"
                THEN EnsureLoopNoRollback(db, ids, k + 1, ins, fault, locked, unreadable)
                ELSE
                  LET run == EnsureInserts(db, range.months, 1, t, existingMonths,
                                           ins, fault)
                  IN  IF run.err # "ok"
                      THEN [tx |-> run.tx, err |-> run.err, wrote |-> run.tx # db]
                      ELSE IF locked /\ run.tx # db
                      THEN [tx |-> db, err |-> "database is locked", wrote |-> TRUE]
                      ELSE EnsureLoopNoRollback(run.tx, ids, k + 1, run.ins, fault, locked,
                                      unreadable)

\* the loop over the active tenants: db holds what earlier tenants committed.
\* The SELECT over tenants stays open on its own connection until the loop
\* ends; locked says that its read lock keeps the COMMIT of a transaction
\* that wrote from taking the write lock (rollback journal, the default), so
\* that the COMMIT returns an error and the driver rolls back.  unreadable
\* is the tenant whose GetByTenantID returns an error (0: none), as it does
\* for every tenant when the table is missing; the loop skips that tenant
RECURSIVE EnsureLoop(_, _, _, _, _, _, _)
EnsureLoop(db, ids, k, ins, fault, locked, unreadable) ==
    IF k > Len(ids) THEN [tx |-> db, err |-> "ok", wrote |-> FALSE]
    ELSE
      LET t == CHOOSE x \in tenants : x.id = ids[k]
          currentMonthStr == FormatMonth(FirstOfMonth(today[1], today[2]))
      IN  IF ~parseDate(t.move_in_date)
          THEN EnsureLoop(db, ids, k + 1, ins, fault, locked, unreadable)
          ELSE IF t.id = unreadable \/ NoSuchTable
          THEN EnsureLoop(db, ids, k + 1, ins, fault, locked, unreadable)
          ELSE
            LET moveInMonthStr ==
                    FormatMonth(FirstOfMonth(t.move_in_date[1], t.move_in_date[2]))
                existingMonths == {r.month : r \in {x \in db.rows : x.tenant_id = t.id}}
                range == GetMonthsRange(moveInMonthStr, currentMonthStr)
            IN  IF StrLess(currentMonthStr, moveInMonthStr)
                THEN EnsureLoop(db, ids, k + 1, ins, fault, locked, unreadable)
                ELSE IF range.err # "ok"
                THEN EnsureLoop(db, ids, k + 1, ins, fault, locked, unreadable)
                ELSE
                  LET run == EnsureInserts(db, range.months, 1, t, existingMonths,
                                           ins, fault)
                  IN  IF run.err # "ok"
                      THEN [tx |-> db, err |-> run.err, wrote |-> run.tx # db]
                      ELSE IF locked /\ run.tx # db
                      THEN [tx |-> db, err |-> "database is locked", wrote |-> TRUE]
                      ELSE EnsureLoop(run.tx, ids, k + 1, run.ins, fault, locked,
                                      unreadable)

\* the repository call, as App.startup makes it: what it does to the tables
EnsurePaymentRecordsForActiveTenants(fault, locked, unreadable) ==
    LET ids == InIdOrder({t.id : t \in {x \in tenants : IsActive(x)}})
    IN  \E res \in {EnsureLoop(Tx(payment_records, seq_records), ids, 1, 0,
                                fault, locked, unreadable)} :
        /\ res.tx.seq <= MaxRecordId
        /\ payment_records' = res.tx.rows
        /\ seq_records' = res.tx.seq
        /\ last' = Outcome("Ensure", res.tx.seq - seq_records, res.err,
                           IF res.wrote THEN "wrote" ELSE "clean")
        /\ UNCHANGED <<apartments, houses, tenants, seq_tenants, today, edits>>

\* ------------------------------------------------------------ App.startup
\* NewApp(): &App{}, every field nil
NewApp ==
    [ctx |-> FALSE, db |-> FALSE, houseRepository |-> FALSE,
     apartmentRepository |-> FALSE, tenantRepository |-> FALSE,
     paymentRecordRepository |-> FALSE]

\* the facade can serve calls: the storage handle and the four repositories
\* are set
Started ==
    /\ app.db
    /\ app.houseRepository /\ app.apartmentRepository
    /\ app.tenantRepository /\ app.paymentRecordRepository

\* variant: an error of the back-fill ends the process (log.Fatal), and the
\* application is left as NewApp() made it
startupFatal(fault, locked, unreadable) ==
    /\ schema' = schema \cup {"houses", "apartments", "tenants"}
    /\ EnsurePaymentRecordsForActiveTenants(fault, locked, unreadable)
    /\ app' = IF last'.err = "ok"
              THEN [ctx |-> TRUE, db |-> TRUE, houseRepository |-> TRUE,
                    apartmentRepository |-> TRUE, tenantRepository |-> TRUE,
                    paymentRecordRepository |-> TRUE]
              ELSE NewApp

\* App.startup of a launch of the application: db.GetDB opens the file and
\* its initSchema creates the tables houses, apartments and tenants where
\* they are missing; the fields are set, then the back-fill runs and its
\* error is printed
startup(fault, locked, unreadable) ==
    /\ app' = [ctx |-> TRUE, db |-> TRUE, houseRepository |-> TRUE,
               apartmentRepository |-> TRUE, tenantRepository |-> TRUE,
               paymentRecordRepository |-> TRUE]
    /\ schema' = schema \cup {"houses", "apartments", "tenants"}
    /\ EnsurePaymentRecordsForActiveTenants(fault, locked, unreadable)

\* ----------------------------------------------- tenant update and delete
\* App.updateFuturePaymentRecordTargetRents
updateFuturePaymentRecordTargetRents(rows, tenantID, newTargetRent) ==
    LET currentMonthStr == FormatMonth(FirstOfMonth(today[1], today[2]))
    IN  {IF /\ r.tenant_id = tenantID
            /\ ~StrLess(r.month, currentMonthStr)
            /\ ~r.is_locked
         THEN [r EXCEPT !.target_cold_rent = newTargetRent]
         ELSE r : r \in rows}

\* App.updateFuturePaymentRecordPersons
updateFuturePaymentRecordPersons(rows, tenantID, newPersons) ==
    LET currentMonthStr == FormatMonth(FirstOfMonth(today[1], today[2]))
    IN  {IF /\ r.tenant_id = tenantID
            /\ ~StrLess(r.month, currentMonthStr)
            /\ ~r.is_locked
         THEN [r EXCEPT !.persons = newPersons]
         ELSE r : r \in rows}

\* TenantRepository.Update up to the UPDATE: the error it returns, or "ok"
TenantUpdateErr(id, f) ==
    IF TenantValidate(f) # "ok" THEN TenantValidate(f)
    ELSE IF TenantGetByID(id) = {} THEN "tenant not found"
    ELSE ApartmentCheck(f)

\* App.UpdateTenant; fault names the propagation whose transaction fails and
\* is rolled back (0: none, 1: target rents, 2: persons), as both do on their
\* first query when the table is missing, an error the facade only prints
UpdateTenant(id, f, fault) ==
    /\ LET err == IF TenantGetByID(id) = {} THEN "tenant not found"
                  ELSE IF NewTenant(f) # "ok" THEN NewTenant(f)
                  ELSE TenantUpdateErr(id, f)
       IN  IF err # "ok"
           THEN /\ last' = Outcome("UpdateTenant", id, err, "rejected")
                /\ UNCHANGED <<tenants, payment_records>>
           ELSE LET existingTenant == CHOOSE t \in tenants : t.id = id
                    rentChanged == existingTenant.target_cold_rent # f.target_cold_rent
                    personsChanged == existingTenant.number_of_persons # f.number_of_persons
                    rows1 == IF rentChanged /\ fault # 1 /\ ~NoSuchTable
                             THEN updateFuturePaymentRecordTargetRents(
                                      payment_records, id, f.target_cold_rent)
                             ELSE payment_records
                    rows2 == IF personsChanged /\ fault # 2 /\ ~NoSuchTable
                             THEN updateFuturePaymentRecordPersons(
                                      rows1, id, f.number_of_persons)
                             ELSE rows1
                IN  /\ tenants' = {IF t.id = id THEN TenantRow(id, f) ELSE t : t \in tenants}
                    /\ payment_records' = rows2
                    /\ last' = Outcome("UpdateTenant", id, "ok",
                                       IF (rentChanged /\ (fault = 1 \/ NoSuchTable))
                                          \/ (personsChanged /\ (fault = 2 \/ NoSuchTable))
                                       THEN "propagation failed"
                                       ELSE IF rows2 # payment_records THEN "propagated"
                                       ELSE "no propagation")
    /\ edits' = edits + 1
    /\ UNCHANGED <<app, schema, apartments, houses, seq_tenants, seq_records, today>>

\* App.DeleteTenant / TenantRepository.Delete: the payment records stay
DeleteTenant(id) ==
    /\ IF TenantGetByID(id) = {}
       THEN /\ last' = Outcome("DeleteTenant", id, "tenant not found", "")
            /\ UNCHANGED tenants
       ELSE /\ tenants' = {t \in tenants : t.id # id}
            /\ last' = Outcome("DeleteTenant", id, "ok", "")
    /\ edits' = edits + 1
    /\ UNCHANGED <<app, schema, apartments, houses, payment_records, seq_tenants, seq_records, today>>

\* ---------------------------------------------------- ApartmentRepository
\* ApartmentRepository.GetByID: the join drops an apartment whose house row
\* is gone
ApartmentGetByID(id) == {a \in apartments : a.id = id /\ a.house_id \in houses}

\* the error App.UpdateApartment returns before the UPDATE, or "ok": the size
\* string, Apartment.Validate, and the lookup of ApartmentRepository.Update
UpdateApartmentErr(id, name, houseID, size) ==
    IF ParseFloat(ReplaceCommas(TrimSpace(size))).err # "ok" THEN "invalid size format"
    ELSE IF ParseFloat(ReplaceCommas(TrimSpace(size))).val <= 0
         THEN "size must be greater than 0"
    ELSE IF TrimSpace(name) = <<>> THEN "apartment name cannot be empty"
    ELSE IF houseID <= 0 THEN "invalid house ID"
    ELSE IF ApartmentGetByID(id) = {} THEN "apartment not found"
    ELSE "ok"

\* App.UpdateApartment: the UPDATE writes house_id as given, and the
\* GetByID that ends the call fails when that house is not stored
UpdateApartment(id, name, houseID, size) ==
    /\ LET err == UpdateApartmentErr(id, name, houseID, size)
       IN  IF err # "ok"
           THEN /\ last' = Outcome("UpdateApartment", id, err, "rejected")
                /\ UNCHANGED apartments
           ELSE /\ apartments' = {IF a.id = id THEN [a EXCEPT !.house_id = houseID]
                                  ELSE a : a \in apartments}
                /\ last' = Outcome("UpdateApartment", id,
                                   IF houseID \in houses THEN "ok"
                                   ELSE "apartment not found",
                                   "written")
    /\ edits' = edits + 1
    /\ UNCHANGED <<app, schema, houses, tenants, payment_records, seq_tenants, seq_records, today>>

\* App.DeleteApartment / ApartmentRepository.Delete: the tenants of the
\* apartment stay
DeleteApartment(id) ==
    /\ IF ApartmentGetByID(id) = {}
       THEN /\ last' = Outcome("DeleteApartment", id, "apartment not found", "")
            /\ UNCHANGED apartments
       ELSE /\ apartments' = {a \in apartments : a.id # id}
            /\ last' = Outcome("DeleteApartment", id, "ok", "")
    /\ edits' = edits + 1
    /\ UNCHANGED <<app, schema, houses, tenants, payment_records, seq_tenants, seq_records, today>>

\* the clock moves on to a later date
Tick ==
    /\ \E i \in 1..Len(Calendar) : StrLess(today, Calendar[i]) /\ today' = Calendar[i]
    /\ last' = Outcome("Tick", 0, "ok", "")
    /\ UNCHANGED <<app, schema, apartments, houses, tenants, payment_records, seq_tenants,
                   seq_records, edits>>

\* ---------------------------------------------------------------- system
\* a database file with the four tables, as initSchema and
\* PaymentRecordRepository.InitSchema create them, two houses with an
\* apartment each, and the application not yet launched
Init ==
    /\ app = NewApp
    /\ schema = AllTables
    /\ houses = {1, 2}
    /\ apartments = {[id |-> 1, house_id |-> 1], [id |-> 2, house_id |-> 2]}
    /\ tenants = {}
    /\ payment_records = {}
    /\ seq_tenants = 0
    /\ seq_records = 0
    /\ today = Calendar[1]
    /\ edits = 0
    /\ last = Outcome("Init", 0, "ok", "")

\* ----------------------------------------------------------- call inputs
Payment(pcr, pa, pe, ep, persons, note, locked) ==
    [paid_cold_rent |-> pcr, paid_ancillary |-> pa, paid_electricity |-> pe,
     extra_payments |-> ep, persons |-> persons, note |-> note, is_locked |-> locked]

\* a models.PaymentRecord as a caller hands it to the repository
Record(id, tenantID, month, target, p) ==
    [id |-> id, tenant_id |-> tenantID, month |-> month, target_cold_rent |-> target,
     paid_cold_rent |-> p.paid_cold_rent, paid_ancillary |-> p.paid_ancillary,
     paid_electricity |-> p.paid_electricity, extra_payments |-> p.extra_payments,
     persons |-> p.persons, note |-> p.note, is_locked |-> p.is_locked]

Payments ==
    { Payment(5, 6, 7, 8, 2, "n", TRUE),
      Payment(5, 6, 7, 8, 2, "n", FALSE),
      Payment(0, 0, 0, 0, 1, "", TRUE),
      Payment(5, 6, 7, -1, 2, "n", TRUE),
      Payment(5, 6, 7, 8, 0, "n", TRUE) }

\* records for Update: the stored record with new values, the same id under a
\* header that differs from the stored one, and ids that may not exist
UpdateInputs ==
    {Record(r.id, r.tenant_id, r.month, r.target_cold_rent, p) :
        r \in payment_records, p \in Payments}
    \cup {Record(id, seq_tenants + 1, <<2020, 1>>, 1, p) :
            id \in 1..(seq_records + 1), p \in {Payment(5, 6, 7, 8, 2, "n", TRUE)}}
    \cup {Record(id, 1, <<2023, 13>>, 500, p) :
            id \in 1..seq_records, p \in {Payment(5, 6, 7, 8, 2, "n", FALSE)}}

CreateInputs ==
    {Record(0, t, m, 500, p) :
        t \in 0..seq_tenants,
        m \in {<<2023, 12>>, <<2024, 3>>, <<2023, 13>>},
        p \in Payments}

\* records of a batch: for the month the model starts in, for a month that
\* does not parse, and for tenant 0, who never exists
BatchRecords ==
    {Record(0, t, <<2023, 12>>, 500, p) :
        t \in 1..seq_tenants,
        p \in {Payment(5, 6, 7, 8, 2, "n", TRUE),
               Payment(0, 0, 0, 0, 1, "", FALSE),
               Payment(5, 6, 7, -1, 0, "n", FALSE)}}
    \cup {Record(0, t, <<2023, 13>>, 500, Payment(5, 6, 7, 8, 2, "n", TRUE)) :
            t \in 1..seq_tenants}
    \cup {Record(0, 0, <<2023, 12>>, 500, Payment(5, 6, 7, 8, 2, "n", TRUE))}

BatchInputs ==
    {<<a>> : a \in BatchRecords} \cup {<<a, b>> : a \in BatchRecords, b \in BatchRecords}

\* what the payment dialog sends to App.UpdatePaymentRecord: two sets of
\* values that parse, and the same values with one field that does not parse,
\* is negative, or is not a positive count
DialogValues(pcr, pa, pe, ep, persons, note, locked) ==
    [paidColdRent |-> pcr, paidAncillary |-> pa, paidElectricity |-> pe,
     extraPayments |-> ep, persons |-> persons, note |-> note, isLocked |-> locked]

UpdatePaymentRecordInputs ==
    {DialogValues(<<"5">>, <<" ", "6">>, <<"7", ",", "0">>, <<"8", ".">>, <<" ", "2", " ">>,
                  "n", l) : l \in BOOLEAN}
    \cup {DialogValues(<<>>, <<"0">>, <<"0", ",", "0">>, <<>>, <<"1">>, "", l) :
            l \in BOOLEAN}
    \cup {DialogValues(a, <<"6">>, <<"7">>, <<"8">>, <<"2">>, "n", FALSE) :
            a \in {<<"a">>, <<"-", "1">>, <<" ">>}}
    \cup {DialogValues(<<"5">>, <<"6">>, <<"7">>, a, <<"2">>, "n", FALSE) :
            a \in {<<"1", ",", ",", "0">>, <<"-", "1">>}}
    \cup {DialogValues(<<"5">>, <<"6">>, <<"7">>, <<"8">>, p, "n", FALSE) :
            p \in {<<"0">>, <<>>, <<"x">>, <<"-", "1">>, <<"2", ",", "0">>}}

\* the inputs of the editing calls in the specification of the whole system:
\* they edit the stored records of the month the model starts in
CurrentRecords == {r \in payment_records : r.month = <<2023, 12>>}

SystemUpdateInputs ==
    {Record(r.id, r.tenant_id, r.month, r.target_cold_rent,
            Payment(5, 6, 7, 8, 2, "n", TRUE)) : r \in CurrentRecords}

SystemCreateInputs ==
    {Record(0, t, m, 500, Payment(5, 6, 7, 8, 2, "n", TRUE)) :
        t \in {x.id : x \in tenants}, m \in {<<2023, 12>>, <<2024, 3>>}}

SystemBatchInputs ==
    {<<a, a>> : a \in {x \in BatchRecords : x.month = <<2023, 13>>}}

\* what can go wrong in a back-fill: an INSERT fails, the COMMIT finds the
\* database locked, or the records of the first tenant cannot be read
StartupInputs ==
    {[fault |-> f, locked |-> FALSE, unreadable |-> 0] : f \in 0..MaxFaultPos}
    \cup {[fault |-> 0, locked |-> TRUE, unreadable |-> 0],
          [fault |-> 0, locked |-> FALSE, unreadable |-> 1]}

\* the tenant dialog's form of the editing calls, and the form it is changed to
EditTenantForm == TenantForm(<<2023, 11, 20>>, NoDate, 1, 500, 1, 1)

ChangedEditTenantForm == TenantForm(<<2023, 11, 20>>, NoDate, 2, 600, 1, 1)

\* the forms of the edit-tenant dialog, and the form that changes rent and
\* persons with a propagation that fails
UpdateTenantInputs ==
    {[form |-> f, fault |-> 0] : f \in ChangedTenantForms}
    \cup {[form |-> ChangedEditTenantForm, fault |-> k] : k \in 1..2}

\* the run of the whole system has calls left in its budget
CallsLeft == seq_tenants + edits < MaxCalls

Next ==
    \/ \E a \in StartupInputs : startup(a.fault, a.locked, a.unreadable)
    \/ Tick
    \/ Started /\ \E id \in 1..seq_tenants, fault \in 0..MaxFaultPos :
                      GeneratePaymentRecordsForTenant(id, fault)
    \/ Started /\ CallsLeft /\ \E f \in NewTenantForms, fault \in 0..1 :
                      CreateTenant(f, fault)
    \/ Started /\ CallsLeft /\ \E id \in 1..seq_tenants, a \in UpdateTenantInputs :
                      UpdateTenant(id, a.form, a.fault)
    \/ Started /\ CallsLeft /\ \E id \in 1..seq_tenants : DeleteTenant(id)
    \/ Started /\ CallsLeft /\ \E record \in SystemCreateInputs : Create(record)
    \/ Started /\ CallsLeft /\ \E record \in SystemUpdateInputs : Update(record)
    \/ Started /\ CallsLeft /\ \E r \in CurrentRecords : Delete(r.id)
    \/ Started /\ CallsLeft /\ \E records \in SystemBatchInputs :
                      BatchCreateOrUpdateRecords(records, 0)

\* the whole system: the application is launched, tenants come and go, the
\* clock moves, records are generated, back-filled and edited
Spec == Init /\ [][Next]_vars

\* the run of the editing calls has calls left in its budget
EditCallsLeft == seq_tenants + edits < MaxEditCalls

\* the editing calls with all their inputs, on the records of tenants that
\* moved in before the current month
NextEdit ==
    \/ startup(0, FALSE, 0)
    \/ Started /\ EditCallsLeft /\ CreateTenant(EditTenantForm, 0)
    \/ Started /\ EditCallsLeft /\ \E id \in 1..(seq_tenants + 1) :
                      UpdateTenant(id, ChangedEditTenantForm, 0)
    \/ Started /\ EditCallsLeft /\ \E id \in 1..(seq_tenants + 1) : DeleteTenant(id)
    \/ Started /\ EditCallsLeft /\ \E record \in CreateInputs : Create(record)
    \/ Started /\ EditCallsLeft /\ \E record \in UpdateInputs : Update(record)
    \/ Started /\ EditCallsLeft /\ \E id \in 1..MaxRecordId : Delete(id)
    \/ Started /\ EditCallsLeft /\ \E id \in 1..MaxRecordId : TogglePaymentRecordLock(id)
    \/ Started /\ EditCallsLeft /\ \E id \in 1..MaxRecordId, note \in {"", "n"} :
                      UpdatePaymentRecordNote(id, note)
    \/ Started /\ EditCallsLeft /\ \E id \in 1..MaxRecordId, a \in UpdatePaymentRecordInputs :
                      UpdatePaymentRecord(id, a.paidColdRent, a.paidAncillary,
                                          a.paidElectricity, a.extraPayments,
                                          a.persons, a.note, a.isLocked)
    \/ Started /\ EditCallsLeft /\ \E records \in BatchInputs : \E fault \in 0..Len(records) :
                      BatchCreateOrUpdateRecords(records, fault)

SpecEdit == Init /\ [][NextEdit]_vars

\* forms of the edit-tenant dialog that move the tenant: to the apartment of
\* the other house, and to an apartment that is not of the house named
MovedTenantForms ==
    { TenantForm(<<2023, 11, 20>>, NoDate, 1, 500, 2, 2),
      TenantForm(<<2023, 11, 20>>, NoDate, 1, 500, 1, 2) }

\* what the apartment dialog sends: a name, a house and a size, and values
\* with an empty name, a size that is no number, and a house that is not
\* stored
ApartmentInputs ==
    {[name |-> <<"A">>, houseID |-> h, size |-> <<"5", "0", ",", "0">>] : h \in 0..3}
    \cup {[name |-> <<" ">>, houseID |-> 1, size |-> <<"5", "0">>],
          [name |-> <<"A">>, houseID |-> 1, size |-> <<"x">>],
          [name |-> <<"A">>, houseID |-> 1, size |-> <<"0">>]}

\* the run of the tenant and apartment dialogs has calls left in its budget
PlacementCallsLeft == seq_tenants + edits < MaxPlacementCalls

NextPlacement ==
    \/ startup(0, FALSE, 0)
    \/ Started /\ PlacementCallsLeft /\ \E f \in NewTenantForms : CreateTenant(f, 0)
    \/ Started /\ PlacementCallsLeft /\ \E id \in 1..seq_tenants, f \in MovedTenantForms :
                      UpdateTenant(id, f, 0)
    \/ Started /\ PlacementCallsLeft /\ \E id \in 1..3, a \in ApartmentInputs :
                      UpdateApartment(id, a.name, a.houseID, a.size)
    \/ Started /\ PlacementCallsLeft /\ \E id \in 1..3 : DeleteApartment(id)

\* the tenant and apartment dialogs: tenants are created and moved while
\* apartments are moved to other houses and deleted
SpecPlacement == Init /\ [][NextPlacement]_vars

\* the tenants the views are asked about: one who moved in fifteen months
\* ago, one of the other house who moves out next month, one who has moved
\* out, and one who moved in last month
ViewTenantForms ==
    << TenantForm(<<2022, 10, 1>>, NoDate, 1, 500, 1, 1),
       TenantForm(<<2023, 11, 20>>, <<2024, 1, 10>>, 2, 600, 2, 2),
       TenantForm(<<2023, 10, 1>>, <<2023, 11, 30>>, 1, 500, 1, 1),
       TenantForm(<<2023, 11, 20>>, NoDate, 1, 500, 1, 1) >>

\* the months CreateTenant generates records for with the i-th form on the
\* first date of the calendar
ViewMonths(i) ==
    LET f == ViewTenantForms[i]
        end == IF f.move_out_date # NoDate THEN f.move_out_date ELSE Calendar[1]
    IN  GetMonthsRange(<<f.move_in_date[1], f.move_in_date[2]>>, <<end[1], end[2]>>).months

\* the number of records the forms before the i-th have generated
RECURSIVE ViewBase(_)
ViewBase(i) == IF i = 1 THEN 0 ELSE ViewBase(i - 1) + Len(ViewMonths(i - 1))

\* the tables after CreateTenant has been called with the first n of these
\* forms: the tenants, and for each the records of its months with the ids
\* the table handed out
ViewTables(n) ==
    [tenants |-> {TenantRow(i, ViewTenantForms[i]) : i \in 1..n},
     tx |-> Tx(UNION {{CHOOSE r \in ExecInsert(
                                       Tx({}, ViewBase(i) + k - 1),
                                       GeneratedRecord(i, ViewMonths(i)[k],
                                           ViewTenantForms[i].target_cold_rent,
                                           ViewTenantForms[i].number_of_persons)).rows : TRUE
                         : k \in 1..Len(ViewMonths(i))} : i \in 1..n},
              ViewBase(n + 1))]

InitView ==
    /\ app = [ctx |-> TRUE, db |-> TRUE, houseRepository |-> TRUE,
              apartmentRepository |-> TRUE, tenantRepository |-> TRUE,
              paymentRecordRepository |-> TRUE]
    /\ schema = AllTables
    /\ houses = {1, 2}
    /\ apartments = {[id |-> 1, house_id |-> 1], [id |-> 2, house_id |-> 2]}
    /\ today = Calendar[1]
    /\ \E n \in 0..Len(ViewTenantForms) :
          /\ tenants = ViewTables(n).tenants
          /\ payment_records = ViewTables(n).tx.rows
          /\ seq_tenants = n
          /\ seq_records = ViewTables(n).tx.seq
    /\ edits = 0
    /\ last = Outcome("Init", 0, "ok", "")

ViewEditsLeft == edits < MaxViewEdits

NextView ==
    \/ Tick
    \/ ViewEditsLeft /\ \E r \in CurrentRecords : Delete(r.id)
    \/ ViewEditsLeft /\ \E id \in 1..seq_tenants : DeleteTenant(id)
    \/ \E tenantID \in 0..seq_tenants, count \in {0, 1, 2, 12, 13}, fault \in BOOLEAN :
          CallGetRecentByTenantID(tenantID, count, fault)
    \/ \E houseID \in 1..3, unreadable \in 0..seq_tenants :
          CallGetCurrentTenantsPaymentsByHouseID(houseID, unreadable)

\* the views, asked about tenants with records while records and tenants are
\* deleted and the clock moves
SpecView == InitView /\ [][NextView]_vars

\* the years the month functions are called in and with
Years == 2023..(2023 + MaxYearSpan)

\* month strings handed to GetMonthsRange: the first and the last months of
\* those years, and strings with the month fields 00 and 13
MonthInputs == {<<y, m>> : y \in Years, m \in {0, 1, 2, 11, 12, 13}}

\* the dates the clock can show: the last day of every month
Dates == {x \in Years \X (1..12) \X (28..31) : x[3] = DaysIn(x[1], x[2])}

InitMonths ==
    /\ app = NewApp
    /\ schema = AllTables
    /\ houses = {1, 2}
    /\ apartments = {[id |-> 1, house_id |-> 1], [id |-> 2, house_id |-> 2]}
    /\ tenants = {}
    /\ payment_records = {}
    /\ seq_tenants = 0
    /\ seq_records = 0
    /\ today \in Dates
    /\ edits = 0
    /\ last = Outcome("Init", 0, "ok", "")

NextMonths ==
    \/ \E startMonth \in MonthInputs, endMonth \in MonthInputs :
          CallGetMonthsRange(startMonth, endMonth)
    \/ CallGetLast12MonthsFromToday

\* the month functions, called on any date with any two month strings
SpecMonths == InitMonths /\ [][NextMonths]_vars

\* ----------------------------------------------------- new data directory
\* the database file at the first launch: db.GetDB finds no file and
\* sql.Open creates an empty one, or finds the file an earlier launch left,
\* with the tables its initSchema created and the houses and apartments
\* entered since
InitFresh ==
    /\ app = NewApp
    /\ \E created \in BOOLEAN :
           /\ schema = IF created THEN {"houses", "apartments", "tenants"} ELSE {}
           /\ houses = IF created THEN {1, 2} ELSE {}
           /\ apartments = IF created
                           THEN {[id |-> 1, house_id |-> 1], [id |-> 2, house_id |-> 2]}
                           ELSE {}
    /\ tenants = {}
    /\ payment_records = {}
    /\ seq_tenants = 0
    /\ seq_records = 0
    /\ today = Calendar[1]
    /\ edits = 0
    /\ last = Outcome("Init", 0, "ok", "")

\* what the payment dialog saves for the record the interface holds as
\* record 1 of tenant 1
FreshUpdateInputs ==
    {Record(1, 1, <<2023, 12>>, 500, Payment(5, 6, 7, 8, 2, "n", TRUE))}

\* the run on a new data directory has calls left in its budget
FreshCallsLeft == seq_tenants + edits < MaxFreshCalls

\* the launch and the calls of the interface that reach payment_records
NextFresh ==
    \/ \E a \in StartupInputs : startup(a.fault, a.locked, a.unreadable)
    \/ Started /\ FreshCallsLeft /\ \E f \in NewTenantForms : CreateTenant(f, 0)
    \/ Started /\ FreshCallsLeft /\ \E id \in 1..seq_tenants, f \in ChangedTenantForms :
                      UpdateTenant(id, f, 0)
    \/ Started /\ \E id \in 1..seq_tenants : GeneratePaymentRecordsForTenant(id, 0)
    \/ Started /\ FreshCallsLeft /\ \E record \in SystemCreateInputs : Create(record)
    \/ Started /\ FreshCallsLeft /\ \E record \in FreshUpdateInputs : Update(record)
    \/ Started /\ FreshCallsLeft /\ \E id \in 1..2 : Delete(id)
    \/ Started /\ FreshCallsLeft /\ \E id \in 1..2 : TogglePaymentRecordLock(id)
    \/ Started /\ FreshCallsLeft /\ \E records \in SystemBatchInputs :
                      BatchCreateOrUpdateRecords(records, 0)
    \/ Started /\ \E tenantID \in 1..seq_tenants :
                      CallGetRecentByTenantID(tenantID, 12, FALSE)
    \/ Started /\ \E houseID \in 1..2 : CallGetCurrentTenantsPaymentsByHouseID(houseID, 0)

SpecFresh == InitFresh /\ [][NextFresh]_vars

\* ----------------------------------------------------------------- claims
\* two rows name the same tenant and month
SameKey(r, s) == r.tenant_id = s.tenant_id /\ r.month = s.month

\* two rows agree on the fields a lock freezes
SameFrozenFields(r, s) ==
    /\ r.paid_cold_rent = s.paid_cold_rent
    /\ r.paid_ancillary = s.paid_ancillary
    /\ r.paid_electricity = s.paid_electricity
    /\ r.extra_payments = s.extra_payments
    /\ r.persons = s.persons

\* C1: in every step, a payment record that is locked before the step and
\* still locked after it keeps its paid cold rent, paid ancillary, paid
\* electricity, extra payments and persons.
LockFreeze ==
    [][\A r \in payment_records : \A s \in payment_records' :
          (r.id = s.id /\ r.is_locked /\ s.is_locked) => SameFrozenFields(r, s)]_vars

\* C2: in every reachable state the table holds at most one payment record
\* per tenant and month.
Uniqueness ==
    \A r \in payment_records : \A s \in payment_records : SameKey(r, s) => r = s

\* a batch of two records has succeeded and left a single row: both records
\* named the same tenant and month
UniquenessWitness ==
    /\ last.op = "Batch" /\ last.id = 2 /\ last.err = "ok" /\ last.branch = "wrote"
    /\ Cardinality(payment_records) = 1

\* C3: a batch upsert that returns an error leaves the table, and the ids it
\* hands out, as they were before the call.
BatchAtomicity ==
    [][(last'.op = "Batch" /\ last'.err # "ok") =>
          (payment_records' = payment_records /\ seq_records' = seq_records)]_vars

\* a batch has failed on a tenant that does not exist after an earlier record
\* of it had been written
BatchAtomicityWitness ==
    /\ last.op = "Batch" /\ last.err = "tenant not found" /\ last.branch = "wrote"
    /\ payment_records # {}

\* the row Update stores over the stored row e for the input record
UpdateWouldStore(e, record) ==
    IF Validate(record) # "ok" THEN e
    ELSE CHOOSE s \in ExecUpdate({e}, e.id, LockRule(e, record)) : TRUE

\* C4: after a successful batch upsert, every stored row whose tenant and
\* month one record of the batch names equals the row Update would store
\* over it for that record (stated for the records that pass Validate, which
\* Update accepts).
BatchAppliesUpdateRule ==
    [][last'.op = "Batch" =>
          \A records \in BatchInputs :
             (BatchCreateOrUpdateRecords(records, 0) /\ last'.err = "ok") =>
                \A i \in 1..Len(records) : \A e \in payment_records :
                   (/\ SameKey(e, records[i])
                    /\ Validate(records[i]) = "ok"
                    /\ \A j \in 1..Len(records) : SameKey(records[j], records[i]) => j = i)
                   => UpdateWouldStore(e, [records[i] EXCEPT !.id = e.id])
                         \in payment_records']_vars

\* C5: in every reachable state every stored payment record passes Validate.
StoredRecordsValid == \A r \in payment_records : Validate(r) = "ok"

\* the months of the model's calendar
Months == {<<y, m>> : y \in 2023..2024, m \in 1..12}

\* the month a date lies in
MonthOf(d) == <<d[1], d[2]>>

\* the months from the tenant's move-in month through the move-out month, or
\* through the current month when no move-out date is set
Span(t) ==
    LET endMonth == IF t.move_out_date # NoDate THEN MonthOf(t.move_out_date)
                    ELSE MonthOf(today)
    IN  {mo \in Months : ~StrLess(mo, MonthOf(t.move_in_date)) /\ ~StrLess(endMonth, mo)}

\* the outcome of a generation that succeeded, called directly or by
\* CreateTenant
Generated(l) ==
    \/ l.op = "Generate" /\ l.err = "ok"
    \/ l.op = "CreateTenant" /\ l.branch = "generated"

\* C6: after a generation that succeeds, the tenant has exactly one record
\* for every month of the span, and every record the call inserted belongs to
\* the tenant, lies in the span, has zero paid amounts, an empty note, is
\* unlocked and carries the tenant's current target cold rent and persons.
GenerationResult ==
    [][Generated(last') =>
          \A t \in tenants' : t.id = last'.id =>
             /\ \A mo \in Span(t) :
                   Cardinality({r \in payment_records' :
                                    r.tenant_id = t.id /\ r.month = mo}) = 1
             /\ \A r \in payment_records' \ payment_records :
                   /\ r.tenant_id = t.id
                   /\ r.month \in Span(t)
                   /\ r.paid_cold_rent = 0 /\ r.paid_ancillary = 0
                   /\ r.paid_electricity = 0 /\ r.extra_payments = 0
                   /\ r.note = "" /\ ~r.is_locked
                   /\ r.target_cold_rent = t.target_cold_rent
                   /\ r.persons = t.number_of_persons]_vars

\* a generation has inserted records for a tenant who already had a locked one
GenerationResultWitness ==
    /\ last.op = "Generate" /\ last.err = "ok" /\ last.branch = "wrote"
    /\ \E r \in payment_records : r.tenant_id = last.id /\ r.is_locked

\* C7: every payment record stored before a generation or a back-fill is
\* stored with the same field values after it.
GenerationKeepsRows ==
    [][last'.op \in {"Generate", "Ensure", "CreateTenant"} =>
          payment_records \subseteq payment_records']_vars

\* a generation has inserted records for a tenant who has a record outside
\* the span
GenerationKeepsRowsWitness ==
    /\ last.op = "Generate" /\ last.err = "ok" /\ last.branch = "wrote"
    /\ \E r \in payment_records : r.tenant_id = last.id /\ r.month = <<2024, 3>>

\* C8: a generation for a tenant that directly follows a successful
\* generation for the same tenant writes nothing: the table and the ids it
\* hands out stay as the first run left them.
GenerationIdempotent ==
    [][(Generated(last) /\ last'.op = "Generate" /\ last'.id = last.id) =>
          /\ payment_records' = payment_records
          /\ seq_records' = seq_records
          /\ last'.branch = "clean"]_vars

\* a generation has succeeded without writing for a tenant who has records
GenerationIdempotentWitness ==
    /\ last.op = "Generate" /\ last.err = "ok" /\ last.branch = "clean"
    /\ Cardinality({r \in payment_records : r.tenant_id = last.id}) >= 2

\* C9: a generation that returns an error leaves the table, and the ids it
\* hands out, as they were before the call; one that succeeds leaves a record
\* for every month of the span.
GenerationAtomic ==
    [][last'.op = "Generate" =>
          IF last'.err # "ok"
          THEN payment_records' = payment_records /\ seq_records' = seq_records
          ELSE \A t \in tenants : t.id = last'.id =>
                  \A mo \in Span(t) : \E r \in payment_records' :
                     r.tenant_id = t.id /\ r.month = mo]_vars

\* a generation has failed after its transaction had inserted a record
GenerationAtomicWitness ==
    /\ last.op = "Generate" /\ last.err = "database error" /\ last.branch = "wrote"
    /\ \E t \in tenants : t.id = last.id

\* what C10 says of an Update with that record: the stored locked row keeps
\* its frozen fields, takes the note and stays locked
LockedUpdateOutcome(record) ==
    \A e \in payment_records :
       (e.id = record.id /\ e.is_locked /\ record.is_locked) =>
          \E s \in payment_records' :
             /\ s.id = e.id
             /\ SameFrozenFields(e, s)
             /\ s.note = record.note
             /\ s.is_locked

\* C10 as stated: every Update of a stored locked record with a locked input
\* keeps the frozen fields, stores the input's note and leaves the record
\* locked.
LockedUpdateAlways ==
    [][last'.op = "Update" =>
          \A record \in UpdateInputs : Update(record) => LockedUpdateOutcome(record)]_vars

\* C10: every Update of a stored locked record with a locked input that
\* passes Validate keeps the frozen fields, stores the input's note and
\* leaves the record locked.
LockedUpdateRule ==
    [][last'.op = "Update" =>
          \A record \in UpdateInputs :
             (Update(record) /\ Validate(record) = "ok") => LockedUpdateOutcome(record)]_vars

\* an Update of a locked record has stored the note while the amounts and
\* persons the caller sent were dropped
LockedUpdateRuleWitness ==
    /\ last.op = "Update" /\ last.err = "ok" /\ last.branch = "still locked"
    /\ \E r \in payment_records :
          /\ r.id = last.id /\ r.is_locked /\ r.note = "n"
          /\ r.paid_cold_rent = 0 /\ r.persons = 1

\* the row s holds the amounts, persons, note and lock flag of the input v
StoresInput(s, v) ==
    /\ s.paid_cold_rent = v.paid_cold_rent
    /\ s.paid_ancillary = v.paid_ancillary
    /\ s.paid_electricity = v.paid_electricity
    /\ s.extra_payments = v.extra_payments
    /\ s.persons = v.persons
    /\ s.note = v.note
    /\ s.is_locked = v.is_locked

\* C11: an Update with an input that passes Validate, of a stored record that
\* is unlocked or with an input whose isLocked is false, leaves the record
\* with exactly the input's paid amounts, extra payments, persons, note and
\* lock flag.
UnlockedUpdateStoresInput ==
    [][last'.op = "Update" =>
          \A record \in UpdateInputs :
             (Update(record) /\ Validate(record) = "ok") =>
                \A e \in payment_records :
                   (e.id = record.id /\ (~e.is_locked \/ ~record.is_locked)) =>
                      \E s \in payment_records' :
                         s.id = e.id /\ StoresInput(s, record)]_vars

\* an Update has unlocked a record and changed its amounts and persons in the
\* same call
UnlockedUpdateStoresInputWitness ==
    /\ last.op = "Update" /\ last.err = "ok" /\ last.branch = "unlock"
    /\ \E r \in payment_records :
          /\ r.id = last.id /\ ~r.is_locked
          /\ r.paid_cold_rent = 5 /\ r.extra_payments = 8 /\ r.persons = 2

\* C12: TogglePaymentRecordLock of any stored payment record succeeds and
\* leaves the record with its lock flag flipped and every other field but the
\* update time as it was, and leaves every other record as it was.
ToggleAlwaysFlips ==
    [][last'.op = "Toggle" =>
          \A e \in payment_records :
             IF e.id = last'.id
             THEN /\ last'.err = "ok"
                  /\ [e EXCEPT !.is_locked = ~e.is_locked, !.updated_at = today]
                         \in payment_records'
             ELSE e \in payment_records']_vars

\* C13: in every reachable state every stored payment record names a tenant
\* that is stored.
ReferentialIntegrity ==
    \A r \in payment_records : \E t \in tenants : t.id = r.tenant_id

\* the tenancy is active: no move-out date, or one after today
ActiveTenant(t) == t.move_out_date = NoDate \/ StrLess(today, t.move_out_date)

\* the months from the tenant's move-in month through the current month
SpanToToday(t) ==
    {mo \in Months : ~StrLess(mo, MonthOf(t.move_in_date)) /\ ~StrLess(MonthOf(today), mo)}

\* C14: after a back-fill that returns without error, every active tenant
\* has a payment record for every month from the move-in month through the
\* current month, and every record the back-fill inserted belongs to an
\* active tenant.
BackfillComplete ==
    [][(last'.op = "Ensure" /\ last'.err = "ok") =>
          /\ \A t \in tenants : ActiveTenant(t) =>
                \A mo \in SpanToToday(t) :
                   \E r \in payment_records' : r.tenant_id = t.id /\ r.month = mo
          /\ \A r \in payment_records' \ payment_records :
                \E t \in tenants : t.id = r.tenant_id /\ ActiveTenant(t)]_vars

\* the records of that tenant that are in after and not in before, without
\* the ids the table gave them
InsertedFor(before, after, tenantID) ==
    {[r EXCEPT !.id = 0] : r \in {x \in after \ before : x.tenant_id = tenantID}}

\* C15: the records a back-fill that returns without error inserts for an
\* active tenant are the records GeneratePaymentRecordsForTenant would insert
\* for that tenant from the same state (stated for the tenants the back-fill
\* inserted for, so that a tenant it skipped is not what refutes it).
BackfillEqualsGeneration ==
    [][(last'.op = "Ensure" /\ last'.err = "ok") =>
          \A t \in tenants :
             (ActiveTenant(t) /\ InsertedFor(payment_records, payment_records', t.id) # {}) =>
                InsertedFor(payment_records, payment_records', t.id)
                   = InsertedFor(payment_records,
                                 GenerateRun(Tx(payment_records, seq_records),
                                             tenants, t.id, 0).tx.rows,
                                 t.id)]_vars

\* C16: every run of App.startup, whatever error the back-fill returns,
\* leaves the application with its storage handle and its four repositories
\* set.
StartupNonFatal ==
    [][last'.op = "Ensure" =>
          /\ app'.db
          /\ app'.houseRepository /\ app'.apartmentRepository
          /\ app'.tenantRepository /\ app'.paymentRecordRepository]_vars

\* a startup whose back-fill returned an error has left the application
\* able to serve calls
StartupNonFatalWitness ==
    /\ last.op = "Ensure" /\ last.err # "ok"
    /\ Started

\* C17: a CreateTenant whose record generation fails, and an UpdateTenant
\* whose propagation of the rent or the persons to the records fails, returns
\* an error to the caller.
FacadeSurfacesErrors ==
    [][(\/ last'.op = "CreateTenant" /\ last'.branch = "generation failed"
        \/ last'.op = "UpdateTenant" /\ last'.branch = "propagation failed")
       => last'.err # "ok"]_vars

\* strings of the payment dialog that write no amount: text, a negative
\* number, blanks, two separators
BadAmounts == {<<"a">>, <<"-", "1">>, <<" ">>, <<"1", ",", ",", "0">>}

\* strings of the payment dialog that write no positive count
BadPersons == {<<"0">>, <<>>, <<"x">>, <<"-", "1">>, <<"2", ",", "0">>}

\* C18: an Update whose input fails Validate, and an App.UpdatePaymentRecord
\* call with an amount that does not parse or is negative or with persons
\* that do not parse or are not positive, returns an error and leaves every
\* stored payment record as it was.
ValidationFailureKeepsStore ==
    [][/\ last'.op = "Update" =>
             \A record \in UpdateInputs :
                (Validate(record) # "ok" /\ Update(record)) =>
                   (last'.err # "ok" /\ payment_records' = payment_records)
       /\ last'.op = "UpdatePaymentRecord" =>
             \A a \in UpdatePaymentRecordInputs :
                (/\ \/ a.paidColdRent \in BadAmounts
                    \/ a.paidAncillary \in BadAmounts
                    \/ a.paidElectricity \in BadAmounts
                    \/ a.extraPayments \in BadAmounts
                    \/ a.persons \in BadPersons
                 /\ UpdatePaymentRecord(last'.id, a.paidColdRent, a.paidAncillary,
                                        a.paidElectricity, a.extraPayments,
                                        a.persons, a.note, a.isLocked)) =>
                   (last'.err # "ok" /\ payment_records' = payment_records)]_vars

\* an Update of a stored record has been rejected for a negative amount
ValidationFailureKeepsStoreWitness ==
    /\ last.op = "Update" /\ last.err = "payment amounts cannot be negative"
    /\ \E r \in payment_records : r.id = last.id

\* C19: an Update or Delete of a payment record id that is not stored, and
\* an UpdateTenant or DeleteTenant of a tenant id that is not stored, returns
\* an error and leaves every table, and the ids the tables hand out, as they
\* were.
NotFoundKeepsStore ==
    [][(\/ /\ last'.op \in {"Update", "Delete"}
           /\ ~\E r \in payment_records : r.id = last'.id
        \/ /\ last'.op \in {"UpdateTenant", "DeleteTenant"}
           /\ ~\E t \in tenants : t.id = last'.id)
       => (/\ last'.err # "ok"
           /\ UNCHANGED <<apartments, houses, tenants, payment_records,
                          seq_tenants, seq_records>>)]_vars

\* a Delete of an id that is not stored has been rejected while other records
\* are stored
NotFoundKeepsStoreWitness ==
    /\ last.op = "Delete" /\ last.err = "payment record not found"
    /\ payment_records # {}
    /\ ~\E r \in payment_records : r.id = last.id

\* C20: a Create for a tenant and month that already have a stored record
\* returns an error, adds no row and leaves every stored record, the existing
\* one included, with the field values it had.
DuplicateCreateRejected ==
    [][last'.op = "Create" =>
          \A record \in CreateInputs :
             ((\E e \in payment_records : SameKey(e, record)) /\ Create(record)) =>
                /\ last'.err # "ok"
                /\ payment_records' = payment_records
                /\ seq_records' = seq_records]_vars

\* a Create has been rejected because the tenant has a record for the month
DuplicateCreateRejectedWitness ==
    /\ last.op = "Create"
    /\ last.err = "payment record already exists for this tenant and month"
    /\ payment_records # {}

\* the string has a month field from 01 to 12
ValidMonth(mo) == mo[2] \in 1..12

\* the calendar month after that month
NextMonthOf(mo) == IF mo[2] = 12 THEN <<mo[1] + 1, 1>> ELSE <<mo[1], mo[2] + 1>>

\* the number of months from s to e, both counted
MonthCount(s, e) == (e[1] - s[1]) * 12 + (e[2] - s[2]) + 1

\* the sequence of months goes up by one calendar month at every step
Consecutive(r) ==
    \A i \in 1..(Len(r) - 1) : r[i + 1] = NextMonthOf(r[i]) /\ StrLess(r[i], r[i + 1])

\* C23: a call of GetMonthsRange with two valid months s and e, s not after
\* e, returns without error the months from s to e: the first is s, the last
\* is e, each is the calendar month after the one before it, and there are as
\* many as months from s to e inclusive; a call with e before s, or with a
\* string that is not a valid month, returns an error.
MonthsRangeContract ==
    [][last'.op = "GetMonthsRange" =>
          LET s == last'.id[1]
              e == last'.id[2]
              r == last'.ret
          IN  IF ValidMonth(s) /\ ValidMonth(e) /\ ~StrLess(e, s)
              THEN /\ last'.err = "ok"
                   /\ Len(r) = MonthCount(s, e)
                   /\ r[1] = s /\ r[Len(r)] = e
                   /\ Consecutive(r)
              ELSE last'.err # "ok"]_vars

\* a call has returned the four months from November to February of the
\* next year
MonthsRangeContractWitness ==
    /\ last.op = "GetMonthsRange" /\ last.err = "ok"
    /\ last.id = << <<2023, 11>>, <<2024, 2>> >>
    /\ last.ret = << <<2023, 11>>, <<2023, 12>>, <<2024, 1>>, <<2024, 2>> >>

\* C24: on every date, GetLast12MonthsFromToday returns twelve months, each
\* the calendar month after the one before it, the last of them the month of
\* the date and the first the month eleven months before it.
Last12MonthsContract ==
    [][last'.op = "GetLast12MonthsFromToday" =>
          LET r == last'.ret
          IN  /\ Len(r) = 12
              /\ Consecutive(r)
              /\ r[12] = <<today[1], today[2]>>
              /\ r[1] = IF today[2] = 12 THEN <<today[1], 1>>
                         ELSE <<today[1] - 1, today[2] + 1>>]_vars

\* the call has been made on the last day of a February of a leap year, and
\* its months start in March of the year before
Last12MonthsContractWitness ==
    /\ last.op = "GetLast12MonthsFromToday"
    /\ today = <<2024, 2, 29>>
    /\ last.ret[1] = <<2023, 3>> /\ last.ret[12] = <<2024, 2>>

\* r is the N stored records of the tenant with the greatest months (all of
\* them when the tenant has fewer), in ascending order of month
IsMostRecent(r, tenantID, N) ==
    LET mine == {x \in payment_records : x.tenant_id = tenantID}
        k == Cardinality(mine)
    IN  /\ Len(r) = (IF N < k THEN N ELSE k)
        /\ \A i \in 1..Len(r) : r[i] \in mine
        /\ \A i \in 1..(Len(r) - 1) : StrLess(r[i].month, r[i + 1].month)
        /\ \A x \in mine : (\A i \in 1..Len(r) : r[i] # x) =>
              \A i \in 1..Len(r) : StrLess(x.month, r[i].month)

\* C21: a GetRecentByTenantID(tenant, N) that returns without error returns,
\* for a tenant with k stored records, the min(N, k) records of the tenant
\* with the greatest months in strictly ascending order of month, and leaves
\* the tables as they were.
RecentRecordsView ==
    [][(last'.op = "GetRecentByTenantID" /\ last'.err = "ok") =>
          /\ IsMostRecent(last'.ret, last'.id[1], last'.id[2])
          /\ UNCHANGED <<tenants, payment_records, seq_tenants, seq_records>>]_vars

\* the view has returned twelve records, from January on, of a tenant who
\* has more than twelve
RecentRecordsViewWitness ==
    /\ last.op = "GetRecentByTenantID" /\ last.err = "ok" /\ last.id = <<1, 12>>
    /\ Cardinality({x \in payment_records : x.tenant_id = 1}) > 12
    /\ Len(last.ret) = 12 /\ last.ret[1].month = <<2023, 1>>

\* C22: GetCurrentTenantsPaymentsByHouseID(house) returns without error a
\* map whose keys are the tenants of that house that have no move-out date or
\* one after today, without the tenant whose records could not be fetched,
\* and whose value for a tenant is the tenant's at most 12 most recent records
\* in ascending order of month; it leaves the tables as they were.
HouseView ==
    [][last'.op = "GetCurrentTenantsPaymentsByHouseID" =>
          /\ last'.err = "ok"
          /\ DOMAIN last'.ret =
                {t.id : t \in {x \in tenants : x.house_id = last'.id[1] /\ ActiveTenant(x)}}
                   \ {last'.id[2]}
          /\ \A id \in DOMAIN last'.ret : IsMostRecent(last'.ret[id], id, 12)
          /\ UNCHANGED <<tenants, payment_records, seq_tenants, seq_records>>]_vars

\* the view of house 1 has returned twelve of the fifteen records of tenant
\* 1 and nothing else, while the house has a tenant who moved out and an
\* active tenant whose records could not be fetched
HouseViewWitness ==
    /\ last.op = "GetCurrentTenantsPaymentsByHouseID" /\ last.id = <<1, 4>>
    /\ DOMAIN last.ret = {1} /\ Len(last.ret[1]) = 12
    /\ Cardinality({x \in payment_records : x.tenant_id = 1}) = 15
    /\ \E t \in tenants : t.id = 3 /\ t.house_id = 1 /\ ~ActiveTenant(t)
    /\ \E t \in tenants : t.id = 4 /\ t.house_id = 1 /\ ActiveTenant(t)

\* the record is one a propagation for that tenant writes: the tenant's own,
\* unlocked, of the current month or a later one
Propagates(r, tenantID) ==
    /\ r.tenant_id = tenantID
    /\ ~r.is_locked
    /\ ~StrLess(r.month, <<today[1], today[2]>>)

\* the record as C25 says it is after the tenant row old has become new
AfterPropagation(r, old, new) ==
    [r EXCEPT !.target_cold_rent =
                  IF old.target_cold_rent # new.target_cold_rent /\ Propagates(r, old.id)
                  THEN new.target_cold_rent ELSE @,
              !.persons =
                  IF old.number_of_persons # new.number_of_persons /\ Propagates(r, old.id)
                  THEN new.number_of_persons ELSE @]

\* C25: after an UpdateTenant that stores the tenant, every payment record of
\* the tenant that is unlocked and of the current month or later carries the
\* new target cold rent if the rent changed and the new persons if the
\* persons changed, and every other record, and every other field of every
\* record, is as it was.
PropagationSelective ==
    [][(last'.op = "UpdateTenant" /\ last'.err = "ok") =>
          \A old \in tenants : \A new \in tenants' :
             (old.id = last'.id /\ new.id = last'.id) =>
                payment_records' = {AfterPropagation(r, old, new) : r \in payment_records}]_vars

\* two rows agree on the fields no update writes
SameHeader(r, s) ==
    /\ r.id = s.id
    /\ r.tenant_id = s.tenant_id
    /\ r.month = s.month
    /\ r.target_cold_rent = s.target_cold_rent
    /\ r.created_at = s.created_at

\* C26: after a successful Update, made directly or by a facade call, and
\* after a successful batch upsert, every record stored before is stored with
\* the same id, tenant, month, target cold rent and creation time, and every
\* record other than the one the Update names, or than those whose tenant and
\* month a record of the batch names, is stored as it was.
UpdateFrame ==
    [][/\ (/\ last'.op \in {"Update", "Toggle", "UpdateNote", "UpdatePaymentRecord"}
           /\ last'.err = "ok") =>
             \A e \in payment_records : \E s \in payment_records' :
                SameHeader(e, s) /\ (e.id # last'.id => s = e)
       /\ (last'.op = "Batch" /\ last'.err = "ok") =>
             \A records \in BatchInputs :
                BatchCreateOrUpdateRecords(records, 0) =>
                   \A e \in payment_records : \E s \in payment_records' :
                      /\ SameHeader(e, s)
                      /\ (\A i \in 1..Len(records) : ~SameKey(e, records[i])) => s = e]_vars

\* a batch whose record carries the target cold rent 500 has written the
\* amounts of a stored record whose target cold rent is 600
UpdateFrameWitness ==
    /\ last.op = "Batch" /\ last.err = "ok" /\ last.branch = "wrote"
    /\ \E r \in payment_records :
          r.target_cold_rent = 600 /\ r.paid_cold_rent = 5 /\ r.note = "n"

\* the caller's record carries a negative amount or a number of persons that
\* is not positive
BadValues(record) ==
    \/ record.paid_cold_rent < 0 \/ record.paid_ancillary < 0
    \/ record.paid_electricity < 0 \/ record.extra_payments < 0
    \/ record.persons <= 0

\* C27: an Update of a record that is stored locked, with an input whose
\* isLocked is true and which carries a negative amount or persons that are
\* not positive, returns an error and leaves every stored record, the note of
\* the locked one included, as it was.
ValidateBeforeLockReset ==
    [][last'.op = "Update" =>
          \A record \in UpdateInputs :
             (/\ record.id = last'.id
              /\ record.is_locked /\ BadValues(record)
              /\ \E e \in payment_records : e.id = record.id /\ e.is_locked
              /\ Update(record)) =>
                (last'.err # "ok" /\ payment_records' = payment_records)]_vars

\* an Update of a locked record has been rejected for persons that are not
\* positive, and the record still has the valid values and the empty note it
\* had
ValidateBeforeLockResetWitness ==
    /\ last.op = "Update" /\ last.err = "number of persons must be greater than 0"
    /\ last.branch = "still locked"
    /\ \E r \in payment_records :
          r.id = last.id /\ r.is_locked /\ r.note = "" /\ Validate(r) = "ok"

\* the active tenants that lack a record for a month from the move-in month
\* through the current month in those rows
Incomplete(rows) ==
    {t.id : t \in {x \in tenants :
                      /\ ActiveTenant(x)
                      /\ \E mo \in SpanToToday(x) :
                            ~\E r \in rows : r.tenant_id = x.id /\ r.month = mo}}

\* C28: a back-fill that ends on an INSERT that fails leaves the tenant of
\* that INSERT without any record of this pass and still incomplete, leaves
\* every record it had committed for the tenants before that one, and
\* inserts nothing for the tenants after it: some active tenant is incomplete,
\* and every record the pass added belongs to a tenant before every
\* incomplete one.
BackfillStopsAtFailure ==
    [][(last'.op = "Ensure" /\ last'.err = "database error") =>
          /\ payment_records \subseteq payment_records'
          /\ Incomplete(payment_records') # {}
          /\ \A r \in payment_records' \ payment_records :
                \A id \in Incomplete(payment_records') : r.tenant_id < id]_vars

\* a back-fill has committed a record for the first tenant and has then
\* failed on the second INSERT for the second tenant, who has no record
BackfillStopsAtFailureWitness ==
    /\ last.op = "Ensure" /\ last.err = "database error" /\ last.branch = "wrote"
    /\ last.id = 1
    /\ \E r \in payment_records : r.tenant_id = 1 /\ r.month = <<today[1], today[2]>>
    /\ \E t \in tenants :
          t.id = 2 /\ ActiveTenant(t) /\ ~\E r \in payment_records : r.tenant_id = 2

\* C29: in every reachable state every stored tenant's apartment is stored
\* and is an apartment of the tenant's house.
TenantPlacement ==
    \A t \in tenants :
       \E a \in apartments : a.id = t.apartment_id /\ a.house_id = t.house_id

\* the calls that run statements on payment_records
PaymentRecordOps ==
    {"Ensure", "Generate", "Create", "Update", "Delete", "Toggle", "UpdateNote",
     "UpdatePaymentRecord", "Batch", "GetRecentByTenantID",
     "GetCurrentTenantsPaymentsByHouseID"}

\* C30: storage is ready before first use: whenever the back-fill of
\* App.startup or another payment-record operation has run, the table
\* payment_records exists and the operation did not fail for lack of it.
StorageReady ==
    [][last'.op \in PaymentRecordOps =>
          /\ "payment_records" \in schema'
          /\ last'.err # NoSuchTableErr]_vars

====
